---------------------------- MODULE Spec2Model ----------------------------
(***************************************************************************)
(* A model of the `on` webhook runner: event validation, workflow lookup,  *)
(* input mappings, secret loading, environment composition, sequential     *)
(* step execution and recursive dispatch, as implemented by processEvent   *)
(* and its helpers, together with the HTTP handler of startDaemon.         *)
(*                                                                         *)
(* Text is modelled as sequences of one-character strings, so that the     *)
(* text-processing helpers (resolvePath, interpolate, parseSecretsFile,    *)
(* JSON.stringify of the defaults) are computed character by character.    *)
(***************************************************************************)
EXTENDS Integers, Sequences, FiniteSets, TLC

VARIABLES
    config,     \* the OnConfig loaded by startDaemon
    ambient,    \* process.env of the daemon
    fs,         \* the file system: path -> contents
    req,        \* per HTTP request: its status, response and call stack
    log,        \* per HTTP request: the history of its observable operations
    environments, \* the environment tables allocated by processEvent invocations
    call,       \* the pending invocation of a helper checked in isolation
    result      \* the value that invocation returned

vars == <<config, ambient, fs, req, log, environments, call, result>>

(***************************************************************************)
(* Bounds of the model.                                                    *)
(***************************************************************************)
MaxParts == 5          \* fragments per enumerated template
MaxDepth == 3          \* nesting of processEvent invocations (dispatch)
NumRequests == 2       \* HTTP requests in flight
MaxMappings == 3       \* entries of an enumerated mappings object
MaxSecretFiles == 3    \* secret files an enumerated workflow declares

(***************************************************************************)
(* Text.                                                                   *)
(***************************************************************************)
Range(f) == { f[i] : i \in DOMAIN f }

Whitespace == {" ", "\t", "\n", "\r"}

RECURSIVE trimStart(_)
trimStart(s) ==
    IF s # <<>> /\ Head(s) \in Whitespace THEN trimStart(Tail(s)) ELSE s

RECURSIVE trimEnd(_)
trimEnd(s) ==
    IF s # <<>> /\ s[Len(s)] \in Whitespace
    THEN trimEnd(SubSeq(s, 1, Len(s) - 1))
    ELSE s

trim(s) == trimEnd(trimStart(s))

startsWith(s, prefix) ==
    /\ Len(s) >= Len(prefix)
    /\ SubSeq(s, 1, Len(prefix)) = prefix

endsWith(s, suffix) ==
    /\ Len(s) >= Len(suffix)
    /\ SubSeq(s, Len(s) - Len(suffix) + 1, Len(s)) = suffix

\* s.indexOf(ch), 1-based; 0 when ch does not occur at or after position i
RECURSIVE indexFrom(_, _, _)
indexFrom(s, ch, i) ==
    IF i > Len(s) THEN 0
    ELSE IF s[i] = ch THEN i
    ELSE indexFrom(s, ch, i + 1)

indexOf(s, ch) == indexFrom(s, ch, 1)

\* s.split(ch): the pieces between the occurrences of ch, empty ones included
RECURSIVE split(_, _)
split(s, ch) ==
    LET k == indexOf(s, ch) IN
    IF k = 0 THEN <<s>>
    ELSE <<SubSeq(s, 1, k - 1)>> \o split(SubSeq(s, k + 1, Len(s)), ch)

\* xs.filter(Boolean) on a list of strings: the empty string is falsy
RECURSIVE filterNonEmpty(_)
filterNonEmpty(xs) ==
    IF xs = <<>> THEN <<>>
    ELSE IF Head(xs) = <<>> THEN filterNonEmpty(Tail(xs))
    ELSE <<Head(xs)>> \o filterNonEmpty(Tail(xs))

RECURSIVE join(_, _)
join(xs, sep) ==
    IF xs = <<>> THEN <<>>
    ELSE IF Len(xs) = 1 THEN Head(xs)
    ELSE Head(xs) \o sep \o join(Tail(xs), sep)

RECURSIVE flatten(_)
flatten(xs) == IF xs = <<>> THEN <<>> ELSE Head(xs) \o flatten(Tail(xs))

(***************************************************************************)
(* Names used by the program.                                              *)
(***************************************************************************)
k_inputs      == <<"i", "n", "p", "u", "t", "s">>
k_secrets     == <<"s", "e", "c", "r", "e", "t", "s">>
k_source      == <<"s", "o", "u", "r", "c", "e">>
k_event       == <<"e", "v", "e", "n", "t">>
k_constructor == <<"c", "o", "n", "s", "t", "r", "u", "c", "t", "o", "r">>
k_toString    == <<"t", "o", "S", "t", "r", "i", "n", "g">>
k_name        == <<"n", "a", "m", "e">>
k_length      == <<"l", "e", "n", "g", "t", "h">>
k_Object      == <<"O", "b", "j", "e", "c", "t">>
jsonSuffix    == <<".", "j", "s", "o", "n">>
ON_DEFAULT_IMAGE ==
    <<"O", "N", "_", "D", "E", "F", "A", "U", "L", "T", "_", "I", "M", "A", "G", "E">>
ON_DEFAULT_VOLUMES ==
    <<"O", "N", "_", "D", "E", "F", "A", "U", "L", "T", "_", "V", "O", "L", "U", "M", "E", "S">>
ON_DEFAULT_ARGS ==
    <<"O", "N", "_", "D", "E", "F", "A", "U", "L", "T", "_", "A", "R", "G", "S">>

(***************************************************************************)
(* JavaScript values.  Every value is a record of the same shape: its tag  *)
(* t, its text s (the characters of a string, the decimal digits of a      *)
(* number, true/false of a boolean, the name of a function) and its own    *)
(* properties o (of an object, or of an array under the keys "0", "1", ..).*)
(***************************************************************************)
NoProps == [k \in {} |-> 0]

Undefined == [t |-> "undefined", s |-> <<>>, o |-> NoProps]
Null      == [t |-> "null", s |-> <<>>, o |-> NoProps]
Str(s)    == [t |-> "string", s |-> s, o |-> NoProps]
Num(s)    == [t |-> "number", s |-> s, o |-> NoProps]
Bool(b)   == [t |-> "boolean", o |-> NoProps,
              s |-> IF b THEN <<"t", "r", "u", "e">> ELSE <<"f", "a", "l", "s", "e">>]
Obj(o)    == [t |-> "object", s |-> <<>>, o |-> o]
Arr(o)    == [t |-> "array", s |-> <<>>, o |-> o]
Fn(name)  == [t |-> "function", s |-> name, o |-> NoProps]

EmptyObj == Obj(NoProps)

\* typeof v
typeOf(v) ==
    CASE v.t \in {"object", "array", "null"} -> "object"
      [] OTHER -> v.t

\* the members of Object.prototype the model knows (every plain object
\* produced by JSON.parse, by the YAML parser or by a literal inherits them)
ObjectPrototype ==
    [k \in {k_constructor, k_toString} |->
        IF k = k_constructor THEN Fn(k_Object) ELSE Fn(k_toString)]

\* `key in v` for a value whose typeof is "object" and that is not null:
\* own properties, then the prototype chain
hasProperty(v, key) ==
    \/ key \in DOMAIN v.o
    \/ key \in DOMAIN ObjectPrototype
    \/ v.t = "array" /\ key = k_length

\* the decimal text of the length of a (short) array
arrayLength(v) ==
    Num(<<(<<"0", "1", "2", "3", "4", "5", "6", "7", "8", "9">>)[Cardinality(DOMAIN v.o) + 1]>>)

\* v[key] for an object, an array or a function
getProperty(v, key) ==
    IF key \in DOMAIN v.o THEN v.o[key]
    ELSE IF v.t = "array" /\ key = k_length THEN arrayLength(v)
    ELSE IF v.t = "function" /\ key = k_name THEN Str(v.s)
    ELSE IF key \in DOMAIN ObjectPrototype THEN ObjectPrototype[key]
    ELSE Undefined

\* the index keys "0", "1", ... of an array, in order
RECURSIVE arrayKeys(_, _)
arrayKeys(v, i) ==
    LET k == <<(<<"0", "1", "2", "3", "4", "5", "6", "7", "8", "9">>)[i + 1]>> IN
    IF k \in DOMAIN v.o THEN <<k>> \o arrayKeys(v, i + 1) ELSE <<>>

\* String(v)
RECURSIVE String(_)
String(v) ==
    CASE v.t = "undefined" -> <<"u", "n", "d", "e", "f", "i", "n", "e", "d">>
      [] v.t = "null" -> <<"n", "u", "l", "l">>
      [] v.t \in {"string", "number", "boolean"} -> v.s
      [] v.t = "object" ->
            <<"[", "o", "b", "j", "e", "c", "t", " ", "O", "b", "j", "e", "c", "t", "]">>
      [] v.t = "array" ->
            LET ks == arrayKeys(v, 0) IN
            join([i \in 1..Len(ks) |->
                     IF v.o[ks[i]].t \in {"undefined", "null"} THEN <<>>
                     ELSE String(v.o[ks[i]])], <<",">>)
      [] v.t = "function" ->
            <<"f", "u", "n", "c", "t", "i", "o", "n", " ">> \o v.s \o
            <<"(", ")", " ", "{", " ", "[", "n", "a", "t", "i", "v", "e", " ",
              "c", "o", "d", "e", "]", " ", "}">>

\* the truthiness of a value, as tested by `if (v)` and `!v`
truthy(v) ==
    CASE v.t \in {"undefined", "null"} -> FALSE
      [] v.t = "string" -> v.s # <<>>
      [] v.t = "number" -> v.s # <<"0">>
      [] v.t = "boolean" -> v.s = <<"t", "r", "u", "e">>
      [] OTHER -> TRUE

(***************************************************************************)
(* resolvePath: the path resolver shared by mappings and interpolation.    *)
(***************************************************************************)
\* pathExpression.trim().replace(/^\$\{/, "").replace(/}$/, "")
normalizePath(pathExpression) ==
    LET trimmed == trim(pathExpression)
        opened  == IF startsWith(trimmed, <<"$", "{">>)
                   THEN SubSeq(trimmed, 3, Len(trimmed))
                   ELSE trimmed
    IN  IF endsWith(opened, <<"}">>)
        THEN SubSeq(opened, 1, Len(opened) - 1)
        ELSE opened

\* the loop over pathParts
RECURSIVE walkPath(_, _)
walkPath(cursor, pathParts) ==
    IF pathParts = <<>> THEN cursor
    ELSE IF \/ typeOf(cursor) # "object"
            \/ cursor.t = "null"
            \/ ~hasProperty(cursor, Head(pathParts))
         THEN Undefined
    ELSE walkPath(getProperty(cursor, Head(pathParts)), Tail(pathParts))

resolvePath(target, pathExpression) ==
    walkPath(target, filterNonEmpty(split(normalizePath(pathExpression), ".")))

(***************************************************************************)
(* interpolate: template.replace(/\$\{([^}]+)}/g, ...)                     *)
(***************************************************************************)
\* a callback without the test for undefined and null
replacementNoCheck(context, expression) == String(resolvePath(context, expression))

\* the replacement callback of interpolate
replacement(context, expression) ==
    LET value == resolvePath(context, expression) IN
    IF value.t \in {"undefined", "null"} THEN <<>> ELSE String(value)

\* The position of the "}" closing a match of /\$\{([^}]+)}/ that starts at
\* position i of the template, or 0 when no match starts there: a match needs
\* "${", at least one character other than "}", and then "}".
matchEnd(template, i) ==
    IF /\ i + 1 <= Len(template)
       /\ template[i] = "$"
       /\ template[i + 1] = "{"
    THEN LET close == indexFrom(template, "}", i + 2) IN
         IF close > i + 2 THEN close ELSE 0
    ELSE 0

\* the global replace: leftmost matches, left to right, never rescanning
RECURSIVE replaceFrom(_, _, _)
replaceFrom(template, i, context) ==
    IF i > Len(template) THEN <<>>
    ELSE LET close == matchEnd(template, i) IN
         IF close # 0
         THEN replacement(context, SubSeq(template, i + 2, close - 1))
                  \o replaceFrom(template, close + 1, context)
         ELSE <<template[i]>> \o replaceFrom(template, i + 1, context)

interpolate(template, context) == replaceFrom(template, 1, context)
(***************************************************************************)
(* asObject and the error messages.  A message is a sequence of pieces of  *)
(* text: the literal parts of the message as whole pieces, interpolated    *)
(* strings character by character.                                         *)
(***************************************************************************)
\* !value || typeof value !== "object" || Array.isArray(value)
isJsonObject(value) ==
    /\ truthy(value)
    /\ typeOf(value) = "object"
    /\ value.t # "array"

MustBeObjectMessage == <<"Incoming webhook payload must be a JSON object.">>

MissingFieldsMessage ==
    <<"Incoming payload must include string fields '", "source", "' and '", "event", "'.">>

NoWorkflowMessage(source, event) ==
    <<"No workflow configured for source '">> \o source
        \o <<"' and event '">> \o event \o <<"'.">>

StepFailedMessage(code, step) ==
    <<"Step failed with exit code ", code, ": ", step>>

\* messages of errors raised by the platform
SpawnErrorMessage == <<"spawn /bin/sh ENOENT">>
ReadErrorMessage(path) ==
    <<"ENOENT: no such file or directory, open '">> \o path \o <<"'">>
JsonSyntaxMessage == <<"Unexpected token in JSON">>

(***************************************************************************)
(* Files.  A file holds either plain text or the JSON text of a value; a   *)
(* path that is not in the file system cannot be read.                     *)
(***************************************************************************)
TextFile(text)  == [kind |-> "text", text |-> text, value |-> Undefined]
JsonFile(value) == [kind |-> "json", text |-> <<>>, value |-> value]

\* JSON.parse(raw): the value, or a SyntaxError for text that is not JSON
jsonParses(file) == file.kind = "json"

(***************************************************************************)
(* parseSecretsFile                                                        *)
(***************************************************************************)
\* contents.split(/\r?\n/u)
splitLines(contents) ==
    LET pieces == split(contents, "\n") IN
    [i \in 1..Len(pieces) |->
        IF i < Len(pieces) /\ endsWith(pieces[i], <<"\r">>)
        THEN SubSeq(pieces[i], 1, Len(pieces[i]) - 1)
        ELSE pieces[i]]

\* the reducer: one trimmed, non-blank, non-comment line
secretLine(acc, line) ==
    LET equalsIndex == indexOf(line, "=") - 1 IN
    IF equalsIndex <= 0 THEN acc
    ELSE LET key   == trim(SubSeq(line, 1, equalsIndex))
             value == trim(SubSeq(line, equalsIndex + 2, Len(line)))
         IN  (key :> value) @@ acc

RECURSIVE secretLines(_, _)
secretLines(acc, lines) ==
    IF lines = <<>> THEN acc
    ELSE LET line == trim(Head(lines)) IN
         IF Len(line) > 0 /\ ~startsWith(line, <<"#">>)
         THEN secretLines(secretLine(acc, line), Tail(lines))
         ELSE secretLines(acc, Tail(lines))

parseSecretsFile(contents) == secretLines(NoProps, splitLines(contents))

(***************************************************************************)
(* loadSecrets                                                             *)
(***************************************************************************)
\* the seed: every entry of process.env
secretsSeed(env) == env

\* a loop that assigns String(value) for every key, null included
jsonSecretsAll(parsed) == [k \in DOMAIN parsed.o |-> String(parsed.o[k])]

\* the key/value pairs a parsed .json secret file contributes
jsonSecrets(parsed) ==
    LET keys == { k \in DOMAIN parsed.o : parsed.o[k].t \notin {"undefined", "null"} } IN
    [k \in keys |-> String(parsed.o[k])]

\* an assignment that keeps the value a key already has
assignSecretsKeep(resolved, pairs) == resolved @@ pairs

\* Object.assign(resolved, pairs), and the assignments of the .json branch
assignSecrets(resolved, pairs) == pairs @@ resolved

\* a loader that skips a secret file it cannot read or use
readSecretFileLenient(resolved, secretPath, files) ==
    IF secretPath \notin DOMAIN files THEN [ok |-> TRUE, resolved |-> resolved]
    ELSE IF endsWith(secretPath, jsonSuffix)
    THEN IF jsonParses(files[secretPath]) /\ isJsonObject(files[secretPath].value)
         THEN [ok |-> TRUE,
               resolved |-> jsonSecrets(files[secretPath].value) @@ resolved]
         ELSE [ok |-> TRUE, resolved |-> resolved]
    ELSE [ok |-> TRUE,
          resolved |-> parseSecretsFile(files[secretPath].text) @@ resolved]

\* What reading one declared secret file does to the table: the new table, or
\* the error that aborts loadSecrets.
readSecretFile(resolved, secretPath, files) ==
    IF secretPath \notin DOMAIN files
    THEN [ok |-> FALSE, message |-> ReadErrorMessage(secretPath)]
    ELSE IF endsWith(secretPath, jsonSuffix)
    THEN IF ~jsonParses(files[secretPath])
         THEN [ok |-> FALSE, message |-> JsonSyntaxMessage]
         ELSE IF ~isJsonObject(files[secretPath].value)
         THEN [ok |-> FALSE, message |-> MustBeObjectMessage]
         ELSE [ok |-> TRUE,
               resolved |-> assignSecrets(resolved, jsonSecrets(files[secretPath].value))]
    ELSE [ok |-> TRUE,
          resolved |-> assignSecrets(resolved, parseSecretsFile(files[secretPath].text))]

\* the loop over the declared secret files, from the table built so far
RECURSIVE loadSecretsFrom(_, _, _)
loadSecretsFrom(resolved, secretPaths, files) ==
    IF secretPaths = <<>> THEN [ok |-> TRUE, resolved |-> resolved]
    ELSE LET out == readSecretFile(resolved, Head(secretPaths), files) IN
         IF out.ok THEN loadSecretsFrom(out.resolved, Tail(secretPaths), files)
         ELSE out

\* loadSecrets(secretPaths) with process.env = env and the files as they are
loadSecrets(secretPaths, files, env) ==
    loadSecretsFrom(secretsSeed(env), secretPaths, files)

(***************************************************************************)
(* withMappings                                                            *)
(***************************************************************************)
\* pathExpression.startsWith("${") ? pathExpression : `${${pathExpression}}`
normalizeMapping(pathExpression) ==
    IF startsWith(pathExpression, <<"$", "{">>)
    THEN pathExpression
    ELSE <<"$", "{">> \o pathExpression \o <<"}">>

\* a mapping resolved against the event as received
mappingTargetSnapshot(original, nextInputs) == Obj((k_inputs :> original))

\* the object the mapping of one field is resolved against
mappingTarget(original, nextInputs) == Obj((k_inputs :> nextInputs))

RECURSIVE applyMappings(_, _, _)
applyMappings(original, nextInputs, mappings) ==
    IF mappings = <<>> THEN nextInputs
    ELSE LET m     == Head(mappings)
             value == resolvePath(mappingTarget(original, nextInputs),
                                  normalizeMapping(m.expr))
         IN  applyMappings(original,
                           Obj((m.field :> value) @@ nextInputs.o),
                           Tail(mappings))

withMappings(inputs, mappings) == applyMappings(inputs, inputs, mappings)

(***************************************************************************)
(* JSON.stringify of the defaults (flat objects of strings, numbers and    *)
(* booleans, their entries in property order).                             *)
(***************************************************************************)
RECURSIVE jsonEscape(_)
jsonEscape(s) ==
    IF s = <<>> THEN <<>>
    ELSE (CASE Head(s) = "\"" -> <<"\\", "\"">>
            [] Head(s) = "\\" -> <<"\\", "\\">>
            [] Head(s) = "\n" -> <<"\\", "n">>
            [] OTHER -> <<Head(s)>>) \o jsonEscape(Tail(s))

jsonQuote(s) == <<"\"">> \o jsonEscape(s) \o <<"\"">>

jsonScalar(v) == IF v.t = "string" THEN jsonQuote(v.s) ELSE v.s

\* the string conversion of an object instead of its JSON text
jsonStringifyAsString(entries) == String(EmptyObj)

jsonStringify(entries) ==
    <<"{">> \o
    join([i \in 1..Len(entries) |->
             jsonQuote(entries[i].key) \o <<":">> \o jsonScalar(entries[i].value)],
         <<",">>)
    \o <<"}">>

(***************************************************************************)
(* The environment table composed by processEvent.                         *)
(***************************************************************************)
\* the context object literal { inputs, secrets } of processEvent
contextObject(inputs, secrets) ==
    Obj((k_inputs :> inputs) @@ (k_secrets :> secrets))

\* a spread in the other order: the ambient values over the secrets
baseEnvironmentAmbientLast(env, secrets) == env @@ secrets

\* { ...process.env, ...secrets }
baseEnvironment(env, secrets) == secrets @@ env

\* the secrets table as the object the templates are resolved against
secretsObject(secrets) == Obj([k \in DOMAIN secrets |-> Str(secrets[k])])

\* a loop in which a template also sees, as secrets, the values assigned by
\* the env entries declared before it
RECURSIVE applyEnvChained(_, _, _)
applyEnvChained(environment, entries, context) ==
    IF entries = <<>> THEN environment
    ELSE LET value   == interpolate(Head(entries).template, context)
             secrets == getProperty(context, k_secrets)
             chained == Obj((Head(entries).key :> Str(value)) @@ secrets.o)
         IN  applyEnvChained((Head(entries).key :> value) @@ environment,
                             Tail(entries),
                             Obj((k_secrets :> chained) @@ context.o))

\* for (const [key, template] of Object.entries(workflow.env ?? {}))
\*     environment[key] = interpolate(template, context)
RECURSIVE applyEnv(_, _, _)
applyEnv(environment, entries, context) ==
    IF entries = <<>> THEN environment
    ELSE applyEnv((Head(entries).key :> interpolate(Head(entries).template, context))
                      @@ environment,
                  Tail(entries), context)

\* if (workflow.defaults?.image), if (workflow.defaults?.volumes), ...
imageSet(defaults)   == truthy(defaults.image)
volumesSet(defaults) == defaults.volumes.present
argsSet(defaults)    == defaults.args.present

applyDefaults(environment, defaults) ==
    (IF argsSet(defaults)
     THEN (ON_DEFAULT_ARGS :> jsonStringify(defaults.args.entries)) ELSE NoProps)
    @@ (IF volumesSet(defaults)
        THEN (ON_DEFAULT_VOLUMES :> jsonStringify(defaults.volumes.entries)) ELSE NoProps)
    @@ (IF imageSet(defaults)
        THEN (ON_DEFAULT_IMAGE :> defaults.image.s) ELSE NoProps)
    @@ environment

composeEnvironment(workflow, inputs, secrets, env) ==
    applyDefaults(
        applyEnv(baseEnvironment(env, secrets), workflow.env,
                 contextObject(inputs, secretsObject(secrets))),
        workflow.defaults)

(***************************************************************************)
(* The configuration.  A workflow lists its secrets, steps and dispatch    *)
(* paths, and its mappings and env entries in property order; an absent    *)
(* list is the empty list (`?? []`, `if (!mappings)`).  A step is a shell  *)
(* command, given with the files the command writes when it succeeds.      *)
(***************************************************************************)
NoDefaults ==
    [image |-> Undefined,
     volumes |-> [present |-> FALSE, entries |-> <<>>],
     args |-> [present |-> FALSE, entries |-> <<>>]]

EmptyWorkflow ==
    [secrets |-> <<>>, mappings |-> <<>>, env |-> <<>>, defaults |-> NoDefaults,
     steps |-> <<>>, dispatch |-> <<>>]

Step(cmd, writes) == [cmd |-> cmd, writes |-> writes]

NotFound == [found |-> FALSE, workflow |-> EmptyWorkflow]
Found(workflow) == [found |-> TRUE, workflow |-> workflow]

\* config.on?.[event.source]?.[event.event], and the test `!workflow`.
\* A property read on a plain object also finds what the object inherits; an
\* inherited member that is truthy passes the test, and every workflow field
\* read from it is undefined.
lookupWorkflow(cfg, source, event) ==
    IF ~cfg.hasOn THEN NotFound
    ELSE IF source \in DOMAIN cfg.on
    THEN IF event \in DOMAIN cfg.on[source]
         THEN Found(cfg.on[source][event])
         ELSE IF truthy(getProperty(EmptyObj, event))
         THEN Found(EmptyWorkflow)
         ELSE NotFound
    ELSE LET member == getProperty(EmptyObj, source) IN
         IF member.t \in {"undefined", "null"} THEN NotFound
         ELSE IF truthy(getProperty(member, event))
         THEN Found(EmptyWorkflow)
         ELSE NotFound

(***************************************************************************)
(* processEvent, from its call to its first suspension: validation, the    *)
(* workflow lookup, the mappings and the call of loadSecrets.              *)
(***************************************************************************)
Requests == 1..NumRequests

\* a validation that forgets the event field
validEventSourceOnly(event) == typeOf(getProperty(event, k_source)) = "string"

\* typeof event.source !== "string" || typeof event.event !== "string"
validEvent(event) ==
    /\ typeOf(getProperty(event, k_source)) = "string"
    /\ typeOf(getProperty(event, k_event)) = "string"

\* one environment table shared by every invocation
envSlotShared(r, id) == <<0, 0>>

\* the environment table of an invocation: `const environment`, a fresh
\* object for every invocation of every request
envSlot(r, id) == <<r, id>>

Frame(id, event, workflow, env) ==
    [id |-> id, event |-> event, workflow |-> workflow,
     inputs |-> withMappings(event, workflow.mappings),
     resolved |-> secretsSeed(env), secretIdx |-> 1,
     pc |-> "secrets", stepIdx |-> 0, dispIdx |-> 0]

\* the number of processEvent invocations a request has made so far
invocations(history) ==
    Cardinality({ i \in DOMAIN history : history[i].op = "call" })

\* The outcome of calling processEvent(event, config) from `parent` (0 for
\* the HTTP handler): the frame it suspends in, or the error it throws, with
\* the operations it performed.
enterEvent(cfg, env, history, event, parent) ==
    LET id     == invocations(history) + 1
        called == <<[op |-> "call", id |-> id, parent |-> parent, event |-> event]>>
        source == getProperty(event, k_source)
        name   == getProperty(event, k_event)
    IN  IF ~validEvent(event)
        THEN [ok |-> FALSE, id |-> id, message |-> MissingFieldsMessage, ops |-> called]
        ELSE LET found  == lookupWorkflow(cfg, source.s, name.s)
                 looked == called \o <<[op |-> "lookup", id |-> id,
                                        source |-> source.s, event |-> name.s]>>
             IN  IF ~found.found
                 THEN [ok |-> FALSE, id |-> id,
                       message |-> NoWorkflowMessage(source.s, name.s), ops |-> looked]
                 ELSE [ok |-> TRUE, id |-> id,
                       frame |-> Frame(id, event, found.workflow, env),
                       ops |-> looked \o <<[op |-> "map", id |-> id,
                                             inputs |-> withMappings(event, found.workflow.mappings)],
                                            [op |-> "secrets", id |-> id]>>]

(***************************************************************************)
(* The state of a request and how a failure reaches the HTTP handler.      *)
(***************************************************************************)
Idle == [status |-> "idle", stack |-> <<>>, response |-> [code |-> 0]]

top(r) == req[r].stack[Len(req[r].stack)]

replaceTop(stack, frame) == [stack EXCEPT ![Len(stack)] = frame]

\* the parent of a finished invocation moves on to its next dispatch entry
resumeParent(stack) ==
    LET rest   == SubSeq(stack, 1, Len(stack) - 1)
        parent == rest[Len(rest)]
        next   == parent.dispIdx + 1
    IN  replaceTop(rest,
            [parent EXCEPT !.dispIdx = next,
                           !.pc = IF next > Len(parent.workflow.dispatch)
                                  THEN "done" ELSE "dispatch"])

\* a dispatch loop that catches the error of a dispatched event and goes on
\* with the next dispatch entry
propagateCaught(stack) ==
    IF Len(stack) > 1 THEN resumeParent(stack) ELSE <<>>

\* What remains of the call stack when the top invocation throws: nothing,
\* processEvent has no try/catch, so the rejection passes through every
\* awaiting ancestor to the catch of the HTTP handler.
propagate(stack) == <<>>

ids(stack) == { stack[i].id : i \in DOMAIN stack }

\* sendJson(response, 400, { error: message })
BadRequest(message) == [code |-> 400, error |-> message]

\* An error thrown with `stack` as the call stack (the frames that are
\* awaiting, the throwing one on top) after the operations `ops`.
Throw(r, stack, ops, message) ==
    LET rest == propagate(stack) IN
    IF rest = <<>>
    THEN /\ req' = [req EXCEPT ![r] = [status |-> "responded", stack |-> <<>>,
                                       response |-> BadRequest(message)]]
         /\ log' = [log EXCEPT ![r] = @ \o ops
                        \o <<[op |-> "fail", ids |-> ids(stack), message |-> message],
                             [op |-> "respond", code |-> 400]>>]
    ELSE /\ req' = [req EXCEPT ![r].stack = rest]
         /\ log' = [log EXCEPT ![r] = @ \o ops
                        \o <<[op |-> "fail", ids |-> ids(stack) \ ids(rest),
                              message |-> message]>>]

(***************************************************************************)
(* The daemon's world: a configuration in the shape of the repository's    *)
(* end-to-end test (github/published dispatching internal/followup), with  *)
(* a second step, a second dispatch entry and a third level added.         *)
(***************************************************************************)
s_gh   == <<"g", "h">>
s_in   == <<"i", "n">>
e_pub  == <<"p", "u", "b">>
e_fu   == <<"f", "u">>
e_leaf == <<"l", "e", "a", "f">>
e_zz   == <<"z", "z">>
e_loop == <<"l", "o", "o", "p">>
p_env  == <<".", "e", "n", "v">>
p_secrets  == <<"s", ".", "j", "s", "o", "n">>
p_dispatch == <<"d", ".", "j", "s", "o", "n">>
p_extra    == <<"e", ".", "j", "s", "o", "n">>
p_followup == <<"f", ".", "j", "s", "o", "n">>
p_loop     == <<"l", ".", "j", "s", "o", "n">>
k_pkg   == <<"p", "k", "g">>
k_url   == <<"u", "r", "l">>
k_image == <<"i", "m", "a", "g", "e">>
k_K     == <<"K">>
k_T     == <<"T">>
k_PATH  == <<"P", "A", "T", "H">>
k_VALUE == <<"A", "_", "V", "A", "L", "U", "E">>
k_wrong == <<"w", "r", "o", "n", "g">>

Event(source, event) == Obj((k_source :> Str(source)) @@ (k_event :> Str(event)))

PublishedWorkflow ==
    [secrets  |-> <<p_env, p_secrets>>,
     mappings |-> <<[field |-> k_image,
                     expr |-> <<"i", "n", "p", "u", "t", "s", ".", "p", "k", "g", ".", "u", "r", "l">>]>>,
     env      |-> <<[key |-> k_VALUE,
                     template |-> <<"$", "{", "i", "n", "p", "u", "t", "s", ".",
                                    "i", "m", "a", "g", "e", "}">>],
                    [key |-> k_K,
                     template |-> <<"$", "{", "s", "e", "c", "r", "e", "t", "s", ".", "K", "}">>]>>,
     defaults |-> [image |-> Str(<<"n", "o", "d", "e">>),
                   volumes |-> [present |-> TRUE,
                                entries |-> <<[key |-> <<".">>,
                                               value |-> Str(<<"/", "h", "o", "m", "e">>)]>>],
                   args |-> [present |-> TRUE,
                             entries |-> <<[key |-> <<"n", "e", "t">>,
                                            value |-> Str(<<"h", "o", "s", "t">>)]>>]],
     steps    |-> <<Step("build", (p_dispatch :> JsonFile(Event(s_in, e_fu)))),
                    Step("test", NoProps)>>,
     dispatch |-> <<p_dispatch, p_extra>>]

FollowupWorkflow ==
    [EmptyWorkflow EXCEPT
        !.secrets = <<p_env>>,
        !.mappings = <<[field |-> k_event,
                        expr |-> <<"i", "n", "p", "u", "t", "s", ".", "s", "o", "u", "r", "c", "e">>],
                       [field |-> k_source,
                        expr |-> <<"$", "{", "i", "n", "p", "u", "t", "s", ".", "p", "k", "g", "}">>]>>,
        !.env = <<[key |-> k_VALUE,
                   template |-> <<"$", "{", "i", "n", "p", "u", "t", "s", ".",
                                  "e", "v", "e", "n", "t", "}">>],
                  [key |-> k_image,
                   template |-> <<"$", "{", "i", "n", "p", "u", "t", "s", ".",
                                  "i", "m", "a", "g", "e", "}", "-",
                                  "$", "{", "s", "e", "c", "r", "e", "t", "s", ".", "T", "}">>]>>,
        !.steps = <<Step("mark", NoProps)>>,
        !.dispatch = <<p_followup>>]

\* internal/leaf leaves an event of its own in d.json and in e.json
LeafWorkflow ==
    [EmptyWorkflow EXCEPT
        !.steps = <<Step("leaf", (p_dispatch :> JsonFile(Event(s_in, e_leaf)))
                                 @@ (p_extra :> JsonFile(Event(s_in, e_leaf))))>>]

\* internal/loop writes an event for itself and dispatches it
LoopWorkflow ==
    [EmptyWorkflow EXCEPT
        !.steps = <<Step("loop", (p_loop :> JsonFile(Event(s_in, e_loop))))>>,
        !.dispatch = <<p_loop>>]

TestConfig ==
    [hasOn |-> TRUE,
     on |-> (s_gh :> (e_pub :> PublishedWorkflow))
            @@ (s_in :> ((e_fu :> FollowupWorkflow) @@ (e_leaf :> LeafWorkflow)
                        @@ (e_loop :> LoopWorkflow)))]

\* loadConfig without --config: {}
NoConfig == [hasOn |-> FALSE, on |-> NoProps]

Configs == {TestConfig}

Ambients == { (k_K :> <<"a", "m", "b">>) @@ (k_PATH :> <<"/", "b", "i", "n">>) }

\* what f.json may hold when internal/followup dispatches it
FollowupFiles ==
    { NoProps,
      (p_followup :> TextFile(<<"o", "o", "p", "s">>)),
      (p_followup :> JsonFile(Arr((<<"0">> :> Event(s_in, e_leaf))))),
      (p_followup :> JsonFile(Obj((k_source :> Str(s_in))))),
      (p_followup :> JsonFile(Event(s_in, e_zz))),
      (p_followup :> JsonFile(Event(s_in, e_leaf))) }

\* what s.json, the second secret file of github/published, may hold: an
\* object, nothing (the file is missing), text that is not JSON, or an array
SecretsFiles ==
    { (p_secrets :> JsonFile(Obj((k_T :> Num(<<"1">>)) @@ (k_PATH :> Null)))),
      NoProps,
      (p_secrets :> TextFile(<<"o", "o", "p", "s">>)),
      (p_secrets :> JsonFile(Arr((<<"0">> :> Str(k_K))))) }

\* the files on disk when the daemon starts: d.json, e.json and l.json do
\* not exist
DiskWith(followup, secrets) ==
    followup @@ secrets
    @@ (p_env :> TextFile(<<"K", "=", "f", "i", "l", "e", "\n",
                            "T", " ", "=", " ", "t", "o", "p", " ", "\n">>))

FileSystems ==
    { DiskWith(followup, (p_secrets :> JsonFile(Obj((k_T :> Num(<<"1">>)) @@ (k_PATH :> Null)))))
        : followup \in FollowupFiles }
    \cup { DiskWith((p_followup :> JsonFile(Event(s_in, e_leaf))), secrets)
             : secrets \in SecretsFiles }

\* the HTTP requests a client may send
Bodies ==
    { [kind |-> "empty", value |-> Undefined],
      [kind |-> "malformed", value |-> Undefined],
      [kind |-> "json", value |-> Null],
      [kind |-> "json", value |-> Num(<<"0">>)],
      [kind |-> "json", value |-> Str(s_gh)],
      [kind |-> "json", value |-> Arr((<<"0">> :> Event(s_gh, e_pub)))],
      [kind |-> "json", value |-> Obj((k_wrong :> Bool(TRUE)))],
      [kind |-> "json", value |-> Obj((k_source :> Str(s_gh)) @@ (k_event :> Num(<<"1">>)))],
      [kind |-> "json", value |-> Obj((k_event :> Str(e_pub)))],
      [kind |-> "json", value |-> Event(s_gh, e_zz)],
      [kind |-> "json", value |-> Event(e_zz, e_pub)],
      [kind |-> "json", value |-> Event(k_constructor, k_name)],
      [kind |-> "json", value |-> Event(s_gh, k_toString)],
      [kind |-> "json", value |-> Event(s_in, e_fu)],
      [kind |-> "json", value |-> Event(s_in, e_leaf)],
      [kind |-> "json", value |-> Event(s_in, e_loop)],
      [kind |-> "json",
       value |-> Obj((k_pkg :> Obj((k_url :> Str(<<"i", "m", "g">>))))
                     @@ Event(s_gh, e_pub).o)] }

HttpRequests ==
    { [method |-> "GET", body |-> [kind |-> "empty", value |-> Undefined]] }
    \cup [method : {"POST"}, body : Bodies]

(***************************************************************************)
(* `call` holds the arguments of one invocation of a helper checked in     *)
(* isolation and `result` what it returned; the daemon uses neither.       *)
(***************************************************************************)
NoCall == [fn |-> "none"]
NoResult == [done |-> FALSE]
Returned(value) == [done |-> TRUE, threw |-> FALSE, value |-> value]
Threw(message) == [done |-> TRUE, threw |-> TRUE, message |-> message]

(***************************************************************************)
(* The daemon: the HTTP handler of startDaemon and the continuations of    *)
(* processEvent at each of its suspension points.                          *)
(***************************************************************************)
Init ==
    /\ config \in Configs
    /\ ambient \in Ambients
    /\ fs \in FileSystems
    /\ req = [r \in Requests |-> Idle]
    /\ log = [r \in Requests |-> <<>>]
    /\ environments = NoProps
    /\ call = NoCall
    /\ result = NoResult

\* a runStep that resolves whenever the process exits, whatever the code
stepSucceededAnyExit(outcome) == outcome.kind = "exit"

\* child.once("exit", code => code === 0 ? resolve() : reject(...))
stepSucceeded(outcome) == outcome.kind = "exit" /\ outcome.code = "0"

\* how a step process may end: exit codes 0 and 1, killed by a signal (the
\* exit code is null), or never launched (the "error" event)
Outcomes ==
    { [kind |-> "exit", code |-> "0"], [kind |-> "exit", code |-> "1"],
      [kind |-> "exit", code |-> "null"], [kind |-> "error", code |-> ""] }

\* sendJson(response, 202, { status: "accepted", source, event })
Accepted(event) ==
    [code |-> 202, status |-> "accepted",
     source |-> getProperty(event, k_source), event |-> getProperty(event, k_event)]

\* a loop that starts the steps from the last one to the first
spawnedReversed(r, frame, idx, tables) ==
    [op |-> "spawn", id |-> frame.id, idx |-> Len(frame.workflow.steps) + 1 - idx,
     cmd |-> frame.workflow.steps[Len(frame.workflow.steps) + 1 - idx].cmd,
     env |-> tables[<<r, frame.id>>]]

\* runStep(step, environment): the step is spawned with the invocation's table
spawned(r, frame, idx, tables) ==
    [op |-> "spawn", id |-> frame.id, idx |-> idx,
     cmd |-> frame.workflow.steps[idx].cmd, env |-> tables[envSlot(r, frame.id)]]

\* a processEvent whose promise stays pending once its steps are over
afterStepsHang(frame) == [frame EXCEPT !.pc = "pending"]

\* a processEvent that dispatches only at the top level
afterStepsDepthLimited(frame) ==
    IF frame.workflow.dispatch # <<>> /\ frame.id = 1
    THEN [frame EXCEPT !.pc = "dispatch", !.dispIdx = 1]
    ELSE [frame EXCEPT !.pc = "done"]

\* a processEvent that returns after its steps, without dispatching
afterStepsNoDispatch(frame) == [frame EXCEPT !.pc = "done"]

\* the invocation once its steps are over: its first dispatch entry is read,
\* or it returns
afterSteps(frame) ==
    IF frame.workflow.dispatch # <<>>
    THEN [frame EXCEPT !.pc = "dispatch", !.dispIdx = 1]
    ELSE [frame EXCEPT !.pc = "done"]

\* a processEvent that writes the interpolated env entries into workflow.env,
\* the object of the configuration, instead of into a table of its own
configAfterInPlace(cfg, frame, table) ==
    LET source == getProperty(frame.event, k_source).s
        event  == getProperty(frame.event, k_event).s
    IN  IF cfg.hasOn /\ source \in DOMAIN cfg.on /\ event \in DOMAIN cfg.on[source]
        THEN [cfg EXCEPT !.on[source][event].env =
                  [i \in 1..Len(@) |-> [key |-> @[i].key, template |-> table[@[i].key]]]]
        ELSE cfg

\* The configuration once an invocation has composed its environment.
\* `workflow` is a reference into config.on, and processEvent only reads
\* through it: what it assigns are properties of `environment`, `nextInputs`
\* and `resolved`, objects it created itself.
configAfter(cfg, frame, table) == cfg

\* an environment that a dispatched event inherits from the event that
\* dispatched it: the table of the parent invocation in place of process.env
processEnvOfParent(env, r, stack, tables) ==
    IF Len(stack) > 1 THEN tables[envSlot(r, stack[Len(stack) - 1].id)] ELSE env

\* `...process.env` in the environment literal of an invocation: the
\* environment of the daemon process, which no invocation assigns to
processEnv(env, r, stack, tables) == env

\* a request arrives and is handled up to the first suspension of processEvent
Receive(r) ==
    /\ req[r].status = "idle"
    /\ \E request \in HttpRequests :
          LET received == <<[op |-> "receive", via |-> "http", parent |-> 0,
                             body |-> request.body]>>
              parsed   == IF request.body.kind = "empty" THEN EmptyObj
                          ELSE request.body.value
          IN  IF request.method # "POST"
              THEN /\ req' = [req EXCEPT ![r] = [status |-> "responded", stack |-> <<>>,
                                                 response |-> [code |-> 405]]]
                   /\ log' = [log EXCEPT ![r] = <<[op |-> "respond", code |-> 405]>>]
              ELSE IF request.body.kind = "malformed"
              THEN Throw(r, <<>>, received, JsonSyntaxMessage)
              ELSE IF ~isJsonObject(parsed)
              THEN Throw(r, <<>>, received, MustBeObjectMessage)
              ELSE LET entered == enterEvent(config, ambient, received, parsed, 0) IN
                   IF entered.ok
                   THEN /\ req' = [req EXCEPT ![r] = [status |-> "running",
                                                      stack |-> <<entered.frame>>,
                                                      response |-> [code |-> 0]]]
                        /\ log' = [log EXCEPT ![r] = received \o entered.ops]
                   ELSE Throw(r, <<[id |-> entered.id]>>, received \o entered.ops,
                              entered.message)
    /\ UNCHANGED <<config, ambient, fs, environments, call, result>>

\* loadSecrets: the readFile of the next declared secret file completes
ReadSecret(r) ==
    /\ req[r].status = "running"
    /\ top(r).pc = "secrets"
    /\ top(r).secretIdx <= Len(top(r).workflow.secrets)
    /\ LET frame == top(r)
           path  == frame.workflow.secrets[frame.secretIdx]
           out   == readSecretFile(frame.resolved, path, fs)
           read  == <<[op |-> "read-secret", id |-> frame.id, path |-> path, ok |-> out.ok]>>
       IN  IF out.ok
           THEN /\ req' = [req EXCEPT ![r].stack = replaceTop(@,
                              [frame EXCEPT !.resolved = out.resolved,
                                            !.secretIdx = @ + 1])]
                /\ log' = [log EXCEPT ![r] = @ \o read]
           ELSE Throw(r, req[r].stack, read, out.message)
    /\ UNCHANGED <<config, ambient, fs, environments, call, result>>

\* loadSecrets has returned: the environment is composed and the first step
\* is spawned
SecretsLoaded(r) ==
    /\ req[r].status = "running"
    /\ top(r).pc = "secrets"
    /\ top(r).secretIdx > Len(top(r).workflow.secrets)
    /\ LET frame  == top(r)
           table  == composeEnvironment(frame.workflow, frame.inputs, frame.resolved,
                                        processEnv(ambient, r, req[r].stack, environments))
           tables == (envSlot(r, frame.id) :> table) @@ environments
           next   == IF frame.workflow.steps # <<>>
                     THEN [frame EXCEPT !.pc = "step", !.stepIdx = 1]
                     ELSE afterSteps(frame)
       IN  /\ environments' = tables
           /\ config' = configAfter(config, frame, table)
           /\ req' = [req EXCEPT ![r].stack = replaceTop(@, next)]
           /\ log' = [log EXCEPT ![r] = @ \o <<[op |-> "compose", id |-> frame.id]>>
                          \o (IF next.pc = "step"
                              THEN <<spawned(r, frame, 1, tables)>> ELSE <<>>)]
    /\ UNCHANGED <<ambient, fs, call, result>>

\* the running step process ends
StepExit(r) ==
    /\ req[r].status = "running"
    /\ top(r).pc = "step"
    /\ \E outcome \in Outcomes :
          LET frame  == top(r)
              step   == frame.workflow.steps[frame.stepIdx]
              exited == <<[op |-> "exit", id |-> frame.id, idx |-> frame.stepIdx,
                           outcome |-> outcome]>>
          IN  IF stepSucceeded(outcome)
              THEN /\ fs' = step.writes @@ fs
                   /\ IF frame.stepIdx < Len(frame.workflow.steps)
                      THEN /\ req' = [req EXCEPT ![r].stack = replaceTop(@,
                                         [frame EXCEPT !.stepIdx = @ + 1])]
                           /\ log' = [log EXCEPT ![r] = @ \o exited
                                         \o <<spawned(r, frame, frame.stepIdx + 1,
                                                      environments)>>]
                      ELSE /\ req' = [req EXCEPT ![r].stack = replaceTop(@, afterSteps(frame))]
                           /\ log' = [log EXCEPT ![r] = @ \o exited]
              ELSE /\ fs' = fs
                   /\ Throw(r, req[r].stack, exited,
                            IF outcome.kind = "error" THEN SpawnErrorMessage
                            ELSE StepFailedMessage(outcome.code, step.cmd))
    /\ UNCHANGED <<config, ambient, environments, call, result>>

\* dispatch files read once, when the daemon started: the files that the
\* steps create later are not among them
dispatchFilesAtStart(files) ==
    [path \in DOMAIN files \ {p_dispatch, p_extra, p_loop} |-> files[path]]

\* the files readFile(dispatchPath) sees: the disk as it is when the dispatch
\* entry is processed
dispatchFiles(files) == files

\* the readFile of the current dispatch entry completes; the event it holds
\* is passed to processEvent, which runs to its first suspension
DispatchRead(r) ==
    /\ req[r].status = "running"
    /\ top(r).pc = "dispatch"
    /\ Len(req[r].stack) < MaxDepth
    /\ LET frame == top(r)
           disk  == dispatchFiles(fs)
           path  == frame.workflow.dispatch[frame.dispIdx]
           read  == <<[op |-> "read-dispatch", id |-> frame.id, idx |-> frame.dispIdx,
                       path |-> path]>>
       IN  IF path \notin DOMAIN disk
           THEN Throw(r, req[r].stack, read, ReadErrorMessage(path))
           ELSE IF ~jsonParses(disk[path])
           THEN Throw(r, req[r].stack, read, JsonSyntaxMessage)
           ELSE LET received == read \o <<[op |-> "receive", via |-> "dispatch",
                                           parent |-> frame.id,
                                           body |-> [kind |-> "json", value |-> disk[path].value]]>>
                IN  IF ~isJsonObject(disk[path].value)
                    THEN Throw(r, req[r].stack, received, MustBeObjectMessage)
                    ELSE LET entered == enterEvent(config, ambient, log[r] \o received,
                                                   disk[path].value, frame.id)
                         IN  IF entered.ok
                             THEN /\ req' = [req EXCEPT ![r].stack = @ \o <<entered.frame>>]
                                  /\ log' = [log EXCEPT ![r] = @ \o received \o entered.ops]
                             ELSE Throw(r, req[r].stack \o <<[id |-> entered.id]>>,
                                        received \o entered.ops, entered.message)
    /\ UNCHANGED <<config, ambient, fs, environments, call, result>>

\* an invocation has nothing left to do: its promise resolves, and either its
\* parent goes on with its next dispatch entry or the handler answers 202
Return(r) ==
    /\ req[r].status = "running"
    /\ top(r).pc = "done"
    /\ LET frame    == top(r)
           returned == <<[op |-> "return", id |-> frame.id]>>
       IN  IF Len(req[r].stack) > 1
           THEN /\ req' = [req EXCEPT ![r].stack = resumeParent(@)]
                /\ log' = [log EXCEPT ![r] = @ \o returned]
           ELSE /\ req' = [req EXCEPT ![r] = [status |-> "responded", stack |-> <<>>,
                                              response |-> Accepted(frame.event)]]
                /\ log' = [log EXCEPT ![r] = @ \o returned
                               \o <<[op |-> "respond", code |-> 202]>>]
    /\ UNCHANGED <<config, ambient, fs, environments, call, result>>

Next ==
    \E r \in Requests :
        \/ Receive(r)
        \/ ReadSecret(r)
        \/ SecretsLoaded(r)
        \/ StepExit(r)
        \/ DispatchRead(r)
        \/ Return(r)

Spec == Init /\ [][Next]_vars

\* a continuation of request r: the completion of a file read or of a step
\* process, or the return of an invocation
Continue(r) ==
    ReadSecret(r) \/ SecretsLoaded(r) \/ StepExit(r) \/ DispatchRead(r) \/ Return(r)

\* the condition under which Continue(r) is enabled: the top invocation of
\* r is at one of its suspension points (the exploration stops at MaxDepth
\* nested invocations)
ready(r) ==
    /\ req[r].status = "running"
    /\ \/ top(r).pc \in {"secrets", "step", "done"}
       \/ top(r).pc = "dispatch" /\ Len(req[r].stack) < MaxDepth

\* The daemon when every file read completes and every step process ends
\* (with whatever outcome), so that the event loop eventually runs the
\* continuation of every request that has one: weak fairness of Continue(r)
\* for every request, WF_vars(Continue(r)), written out with ready(r) for
\* ENABLED <<Continue(r)>>_vars.  Requests need not arrive.
FairSpec ==
    /\ Spec
    /\ \A r \in Requests : []<>(~ready(r)) \/ []<><<Continue(r)>>_vars

(***************************************************************************)
(* Properties of the daemon, stated over the history of each request.      *)
(***************************************************************************)
\* the history entries of request r with the given operation
entries(r, op) == { i \in DOMAIN log[r] : log[r][i].op = op }

\* text occurs in a message
Mentions(message, text) ==
    \E k \in 1..(Len(message) - Len(text) + 1) :
        SubSeq(message, k, k + Len(text) - 1) = text

\* the (source, event) pair has a workflow entry of its own in the configuration
HasEntry(cfg, source, event) ==
    /\ cfg.hasOn
    /\ source \in DOMAIN cfg.on
    /\ event \in DOMAIN cfg.on[source]

\* the workflow run by invocation id of request r
workflowOf(r, id) ==
    LET i == CHOOSE i \in entries(r, "lookup") : log[r][i].id = id IN
    lookupWorkflow(config, log[r][i].source, log[r][i].event).workflow

\* the invocations of request r that were called but had not returned
\* before entry i of its history
activeBefore(r, i) ==
    { log[r][c].id : c \in { c \in entries(r, "call") : c < i } }
        \ { log[r][c].id : c \in { c \in entries(r, "return") : c < i } }

\* C1: when a step does not exit with code 0 (a non-zero code, a null code or
\* a failure to launch), nothing more is started for the request: no later
\* step, no dispatch read, no call; the invocation fails and the request is
\* answered 400.
C1_StepFailureHalts ==
    \A r \in Requests : \A i \in entries(r, "exit") :
        log[r][i].outcome # [kind |-> "exit", code |-> "0"] =>
            /\ \A j \in (i + 1)..Len(log[r]) : log[r][j].op \in {"fail", "respond"}
            /\ \E j \in entries(r, "fail") : j > i /\ log[r][i].id \in log[r][j].ids
            /\ req[r].status = "responded"
            /\ req[r].response.code = 400

\* the first of two steps of github/published was killed by a signal: the
\* second step and both dispatch entries were never begun
C1_Witness ==
    \E r \in Requests : \E i \in entries(r, "exit") :
        /\ log[r][i].outcome = [kind |-> "exit", code |-> "null"]
        /\ log[r][i].idx = 1
        /\ Len(workflowOf(r, log[r][i].id).steps) = 2
        /\ Len(workflowOf(r, log[r][i].id).dispatch) = 2
        /\ req[r].response.code = 400

\* C2: a request is answered 202 only when every invocation of its subtree
\* has returned, every step that was started has exited with code 0, and
\* every invocation has run all the steps of its workflow and dispatched all
\* of its dispatch entries.
C2_AcceptedAfterSubtree ==
    \A r \in Requests :
        req[r].response.code = 202 =>
            /\ req[r].stack = <<>>
            /\ \A c \in entries(r, "call") :
                  LET id == log[r][c].id
                      w  == workflowOf(r, id)
                  IN  /\ \E j \in entries(r, "return") : j > c /\ log[r][j].id = id
                      /\ \A k \in 1..Len(w.steps) :
                            \E x \in entries(r, "exit") :
                                /\ log[r][x].id = id
                                /\ log[r][x].idx = k
                                /\ log[r][x].outcome = [kind |-> "exit", code |-> "0"]
                      /\ \A k \in 1..Len(w.dispatch) :
                            \E d \in entries(r, "read-dispatch") :
                                /\ log[r][d].id = id
                                /\ log[r][d].idx = k
                                /\ \E n \in entries(r, "call") :
                                      n > d /\ log[r][n].parent = id
            /\ \A x \in entries(r, "spawn") :
                  \E j \in entries(r, "exit") :
                      /\ j > x
                      /\ log[r][j].id = log[r][x].id
                      /\ log[r][j].idx = log[r][x].idx
                      /\ log[r][j].outcome = [kind |-> "exit", code |-> "0"]

\* github/published was accepted after three levels of dispatch
C2_Witness ==
    \E r \in Requests :
        /\ req[r].response.code = 202
        /\ \E c \in entries(r, "call") :
              /\ log[r][c].parent # 0
              /\ \E n \in entries(r, "call") : log[r][n].parent = log[r][c].id

\* C3: once a dispatch entry has been read, any failure (of the read, of the
\* parse, or of the dispatched event at any depth) fails every invocation
\* that is awaiting, is followed by no further dispatch read, step or call,
\* and the request is answered 400.
C3_DispatchFailurePropagates ==
    \A r \in Requests : \A i \in entries(r, "fail") :
        (\E d \in entries(r, "read-dispatch") : d < i) =>
            /\ activeBefore(r, i) \subseteq log[r][i].ids
            /\ \A j \in (i + 1)..Len(log[r]) :
                  log[r][j].op = "respond" /\ log[r][j].code = 400
            /\ req[r].status = "responded"
            /\ req[r].response.code = 400

\* a step failed at the third level while the first level still had a
\* dispatch entry to process
C3_Witness ==
    \E r \in Requests : \E i \in entries(r, "fail") :
        /\ Cardinality(log[r][i].ids) = 3
        /\ \E x \in entries(r, "exit") : x < i /\ log[r][x].id = 3
        /\ Cardinality({ d \in entries(r, "read-dispatch") : log[r][d].id = 1 }) = 1
        /\ Len(workflowOf(r, 1).dispatch) = 2
        /\ req[r].response.code = 400

\* C4: an event whose (source, event) pair has no workflow entry in the
\* configuration fails with a message naming the source and the event, and
\* nothing is mapped, loaded, run or dispatched for it.
C4_NoEntryFails ==
    \A r \in Requests : \A i \in entries(r, "lookup") :
        ~HasEntry(config, log[r][i].source, log[r][i].event) =>
            /\ \E j \in entries(r, "fail") :
                  /\ j > i
                  /\ log[r][i].id \in log[r][j].ids
                  /\ Mentions(log[r][j].message, log[r][i].source)
                  /\ Mentions(log[r][j].message, log[r][i].event)
            /\ \A j \in DOMAIN log[r] :
                  log[r][j].op \in {"map", "secrets", "read-secret", "compose",
                                    "spawn", "read-dispatch"}
                      => log[r][j].id # log[r][i].id

\* the body received or dispatched is not a JSON object
notAnObject(body) == body.kind = "json" /\ ~isJsonObject(body.value)

\* the body is a JSON object (an empty HTTP body stands for {}) without a
\* string-typed source or without a string-typed event
lacksFields(body) ==
    LET object == IF body.kind = "empty" THEN EmptyObj ELSE body.value IN
    /\ body.kind \in {"empty", "json"}
    /\ isJsonObject(object)
    /\ \/ getProperty(object, k_source).t # "string"
       \/ getProperty(object, k_event).t # "string"

\* the failure that follows entry i of the history of request r
failureAfter(r, i) ==
    LET later == { j \in entries(r, "fail") : j > i } IN
    IF later = {} THEN [op |-> "none", ids |-> {}, message |-> <<>>]
    ELSE log[r][CHOOSE j \in later : \A k \in later : j <= k]

\* nothing is looked up and no step is started after entry i
nothingRunAfter(r, i) ==
    \A j \in (i + 1)..Len(log[r]) : log[r][j].op \notin {"lookup", "spawn"}

\* C5 as stated: a body that is not a JSON object, or that lacks a string
\* source or event, fails with a message mentioning the missing fields,
\* before any lookup and without any step.
C5_MalformedMentionsFields ==
    \A r \in Requests : \A i \in entries(r, "receive") :
        (notAnObject(log[r][i].body) \/ lacksFields(log[r][i].body)) =>
            /\ Mentions(failureAfter(r, i).message, <<"source">>)
            /\ Mentions(failureAfter(r, i).message, <<"event">>)
            /\ nothingRunAfter(r, i)
            /\ req[r].response.code = 400

\* C5 as amended: both kinds of malformed body fail the request before any
\* lookup and without any step, over HTTP and from a dispatch file; the
\* message names the fields source and event only when the body is a JSON
\* object lacking one of them, and otherwise says that the payload must be a
\* JSON object.
C5_MalformedRejected ==
    \A r \in Requests : \A i \in entries(r, "receive") :
        /\ notAnObject(log[r][i].body) =>
              /\ failureAfter(r, i).message = MustBeObjectMessage
              /\ ~Mentions(failureAfter(r, i).message, <<"source">>)
              /\ nothingRunAfter(r, i)
              /\ req[r].response.code = 400
        /\ lacksFields(log[r][i].body) =>
              /\ Mentions(failureAfter(r, i).message, <<"source">>)
              /\ Mentions(failureAfter(r, i).message, <<"event">>)
              /\ nothingRunAfter(r, i)
              /\ req[r].response.code = 400

\* a dispatch file holding an array failed a request whose steps had run,
\* and another request was refused for an event that is a number
C5_Witness ==
    /\ \E r \in Requests : \E i \in entries(r, "receive") :
          /\ log[r][i].via = "dispatch"
          /\ notAnObject(log[r][i].body)
          /\ req[r].response.code = 400
    /\ \E r \in Requests : \E i \in entries(r, "receive") :
          /\ log[r][i].via = "http"
          /\ lacksFields(log[r][i].body)
          /\ getProperty(log[r][i].body.value, k_source).t = "string"
          /\ req[r].response.code = 400

\* the event invocation id of request r was called with
eventOf(r, id) ==
    LET i == CHOOSE i \in entries(r, "call") : log[r][i].id = id IN log[r][i].event

\* the steps of invocation id of request r started before entry i of its history
spawnedBefore(r, id, i) ==
    { j \in entries(r, "spawn") : j < i /\ log[r][j].id = id }

\* C10: whatever the other requests do meanwhile, every step an event starts
\* is the next step of its own workflow, in declaration order, and is given
\* the environment table that processing the event alone composes: the one
\* determined by its workflow, its own inputs, the declared secret files and
\* the ambient environment.
C10_IndependentEvents ==
    \A r \in Requests : \A i \in entries(r, "spawn") :
        LET e       == log[r][i]
            w       == workflowOf(r, e.id)
            secrets == loadSecrets(w.secrets, fs, ambient)
        IN  /\ e.idx \in 1..Len(w.steps)
            /\ e.cmd = w.steps[e.idx].cmd
            /\ { log[r][j].idx : j \in spawnedBefore(r, e.id, i) } = 1..(e.idx - 1)
            /\ Cardinality(spawnedBefore(r, e.id, i)) = e.idx - 1
            /\ secrets.ok
            /\ e.env = composeEnvironment(w, withMappings(eventOf(r, e.id), w.mappings),
                                          secrets.resolved, ambient)

\* two requests for different (source, event) pairs are in flight together,
\* one in its second step and the other in its first, with different tables
C10_Witness ==
    \E r1, r2 \in Requests :
        /\ r1 # r2
        /\ req[r1].status = "running" /\ req[r2].status = "running"
        /\ Len(req[r1].stack) = 1 /\ Len(req[r2].stack) = 1
        /\ top(r1).pc = "step" /\ top(r1).stepIdx = 2
        /\ top(r2).pc = "step" /\ top(r2).stepIdx = 1
        /\ getProperty(top(r1).event, k_source) # getProperty(top(r2).event, k_source)
        /\ \E i \in entries(r1, "spawn"), j \in entries(r2, "spawn") :
              /\ log[r1][i].idx = 2
              /\ log[r1][i].env # log[r2][j].env

\* the steps of request r that were started and have not exited
runningSteps(r) ==
    { x \in entries(r, "spawn") :
        ~\E j \in entries(r, "exit") :
            j > x /\ log[r][j].id = log[r][x].id /\ log[r][j].idx = log[r][x].idx }

\* step idx of invocation id exited with code 0 before entry i
exitedBefore(r, id, idx, i) ==
    \E j \in entries(r, "exit") :
        /\ j < i
        /\ log[r][j].id = id
        /\ log[r][j].idx = idx
        /\ log[r][j].outcome = [kind |-> "exit", code |-> "0"]

\* C11: within the tree of one top-level event at most one step is running,
\* and nothing else of the tree happens while it runs; a step is started
\* only after the step declared before it exited with code 0; a workflow
\* reads its first dispatch entry only after all its steps exited with code
\* 0, and entry j + 1 only after entry j was read and every invocation begun
\* since then has returned; steps and entries are taken in declaration order.
C11_NoParallelism ==
    \A r \in Requests :
        /\ Cardinality(runningSteps(r)) <= 1
        /\ \A x \in runningSteps(r) : x = Len(log[r])
        /\ \A x \in entries(r, "spawn") :
              LET e == log[r][x] IN
              /\ e.cmd = workflowOf(r, e.id).steps[e.idx].cmd
              /\ \A k \in 1..(e.idx - 1) : exitedBefore(r, e.id, k, x)
        /\ \A d \in entries(r, "read-dispatch") :
              LET e == log[r][d]
                  w == workflowOf(r, e.id)
              IN  /\ e.path = w.dispatch[e.idx]
                  /\ \A k \in 1..Len(w.steps) : exitedBefore(r, e.id, k, d)
                  /\ e.idx > 1 =>
                        \E p \in entries(r, "read-dispatch") :
                            /\ p < d
                            /\ log[r][p].id = e.id
                            /\ log[r][p].idx = e.idx - 1
                            /\ \E c \in entries(r, "call") :
                                  p < c /\ c < d /\ log[r][c].parent = e.id
                            /\ \A c \in entries(r, "call") :
                                  (p < c /\ c < d) =>
                                      \E t \in entries(r, "return") :
                                          c < t /\ t < d /\ log[r][t].id = log[r][c].id

\* github/published ran its two steps, its first dispatch entry went three
\* invocations deep, and its second entry has been read; a step is running
C11_Witness ==
    \E r \in Requests :
        /\ runningSteps(r) # {}
        /\ \E d \in entries(r, "read-dispatch") :
              /\ log[r][d].id = 1
              /\ log[r][d].idx = 2
              /\ \E c \in entries(r, "call") :
                    /\ c < d
                    /\ log[r][c].parent \notin {0, 1}

\* C12: no step of the daemon changes the configuration: whatever the
\* requests do, in whatever order, it stays the structure startDaemon loaded.
C12_ConfigNeverMutated == [][config' = config]_vars

\* one request was accepted after a dispatched event ran, another failed,
\* and the configuration is still one of those that can be loaded
C12_Witness ==
    /\ config \in Configs
    /\ \E r \in Requests :
          /\ req[r].response.code = 202
          /\ \E c \in entries(r, "call") : log[r][c].parent # 0
    /\ \E r \in Requests :
          /\ req[r].response.code = 400
          /\ entries(r, "spawn") # {}

\* Every invocation looks its workflow up under the source and event of the
\* event it received, whatever its mappings make of `inputs`, and a 202
\* reports the source and event of the request's event as received.
selectedAsReceived ==
    \A r \in Requests :
        /\ \A l \in entries(r, "lookup") :
              LET received == eventOf(r, log[r][l].id) IN
              /\ log[r][l].source = getProperty(received, k_source).s
              /\ log[r][l].event = getProperty(received, k_event).s
        /\ req[r].response.code = 202 =>
              /\ req[r].response.source = getProperty(eventOf(r, 1), k_source)
              /\ req[r].response.event = getProperty(eventOf(r, 1), k_event)

\* every invocation that went on to its mappings found an entry of the
\* configuration under exactly its source and event, and runs that entry
entryOfItsOwn ==
    \A r \in Requests : \A m \in entries(r, "map") :
        LET received == eventOf(r, log[r][m].id)
            source   == getProperty(received, k_source).s
            event    == getProperty(received, k_event).s
        IN  /\ HasEntry(config, source, event)
            /\ workflowOf(r, log[r][m].id) = config.on[source][event]

\* C13: the workflow run for an event is the configuration entry under the
\* event's own source and event, nothing else and nothing inherited, and it
\* is selected from the event as received: mappings named source or event
\* change the inputs only.
C13_ExactEntryAsReceived == entryOfItsOwn /\ selectedAsReceived

\* the files the steps of a workflow write, later steps over earlier ones
RECURSIVE writesOf(_)
writesOf(steps) ==
    IF steps = <<>> THEN NoProps
    ELSE writesOf(Tail(steps)) @@ Head(steps).writes

\* C14: concurrent events do not interfere through anything they share: when
\* a workflow dispatches a file its own steps wrote, the event it dispatches
\* is the one its steps wrote, under every interleaving with other requests.
C14_DispatchesItsOwnEvent ==
    \A r \in Requests : \A d \in entries(r, "read-dispatch") :
        LET e       == log[r][d]
            written == writesOf(workflowOf(r, e.id).steps)
        IN  (e.path \in DOMAIN written /\ d < Len(log[r])) =>
                /\ log[r][d + 1].op = "receive"
                /\ log[r][d + 1].body.value = written[e.path].value

\* the secret file at path cannot be loaded: it cannot be read, or it is a
\* .json file that is not the JSON text of an object
unusableSecret(path, files) ==
    \/ path \notin DOMAIN files
    \/ /\ endsWith(path, jsonSuffix)
       /\ ~(jsonParses(files[path]) /\ isJsonObject(files[path].value))

\* C17: when loadSecrets comes to a declared file that cannot be read, or to
\* a .json file that is not an object, the invocation fails there: nothing
\* follows but the failure and the 400, and no step of the workflow was
\* started and no dispatch entry read, wherever the file is in the list.
C17_SecretFailureAborts ==
    \A r \in Requests : \A i \in entries(r, "read-secret") :
        unusableSecret(log[r][i].path, fs) =>
            /\ \A j \in (i + 1)..Len(log[r]) : log[r][j].op \in {"fail", "respond"}
            /\ \E j \in entries(r, "fail") : j > i /\ log[r][i].id \in log[r][j].ids
            /\ ~\E x \in entries(r, "spawn") \cup entries(r, "read-dispatch") :
                   log[r][x].id = log[r][i].id
            /\ req[r].status = "responded"
            /\ req[r].response.code = 400

\* the second secret file of github/published, read after the first one was
\* loaded, is an array in one run and missing in another: the request failed
C17_Witness ==
    \E r \in Requests : \E i \in entries(r, "read-secret") :
        /\ unusableSecret(log[r][i].path, fs)
        /\ \E j \in entries(r, "read-secret") :
              j < i /\ log[r][j].id = log[r][i].id /\ log[r][j].ok
        /\ Len(workflowOf(r, log[r][i].id).steps) > 0
        /\ req[r].response.code = 400

\* the request's own event is for internal/loop, whose step writes an event
\* for internal/loop into the file the workflow dispatches
rootIsLoop(r) ==
    /\ entries(r, "call") # {}
    /\ eventOf(r, 1) = Event(s_in, e_loop)

\* C18: a workflow that dispatches an event for itself recurses without end.
\* Every invocation of the tree is for the same workflow and none returns;
\* each one that dispatched ran its steps first; the request is never
\* accepted, and it fails only if a step did not exit with code 0.
C18_SelfDispatchRecurses ==
    \A r \in Requests :
        rootIsLoop(r) =>
            /\ entries(r, "return") = {}
            /\ req[r].response.code # 202
            /\ req[r].response.code = 400 =>
                  \E x \in entries(r, "exit") :
                      log[r][x].outcome # [kind |-> "exit", code |-> "0"]
            /\ \A c \in entries(r, "call") :
                  /\ log[r][c].event = Event(s_in, e_loop)
                  /\ log[r][c].parent = log[r][c].id - 1
                  /\ log[r][c].id > 1 =>
                        \E x \in entries(r, "exit") :
                            /\ x < c
                            /\ log[r][x].id = log[r][c].parent
                            /\ log[r][x].outcome = [kind |-> "exit", code |-> "0"]

\* the recursion is MaxDepth invocations deep: the step ran at every level
\* above and runs again at the deepest
C18_Witness ==
    \E r \in Requests :
        /\ rootIsLoop(r)
        /\ req[r].status = "running"
        /\ Len(req[r].stack) = MaxDepth
        /\ Cardinality(entries(r, "spawn")) = MaxDepth
        /\ top(r).pc = "step"

\* C19: when every step exits and the events in the dispatch files do not
\* lead back to a workflow in progress, a request that has begun processing
\* is eventually answered, with 202 or with 400, and it is answered once:
\* its history never holds a second response and the answer is final.
C19_EventuallyOneOutcome ==
    /\ [](\A r \in Requests :
             /\ Cardinality(entries(r, "respond")) <= 1
             /\ req[r].status = "responded" =>
                   /\ Cardinality(entries(r, "respond")) = 1
                   /\ log[r][Len(log[r])].op = "respond"
                   /\ req[r].stack = <<>>
                   /\ req[r].response.code \in {202, 400, 405})
    /\ \A r \in Requests :
          (req[r].status = "running" /\ ~rootIsLoop(r))
              ~> (req[r].status = "responded")

\* both requests began processing and went on to steps; one was answered
\* 202 and the other 400, each once
C19_Witness ==
    \E r1, r2 \in Requests :
        /\ req[r1].response.code = 202
        /\ req[r2].response.code = 400
        /\ entries(r1, "exit") # {} /\ entries(r2, "exit") # {}
        /\ Cardinality(entries(r1, "respond")) = 1
        /\ Cardinality(entries(r2, "respond")) = 1

\* the dispatch entries whose read completes in this step of the daemon
newReads(r) ==
    { d \in (Len(log[r]) + 1)..Len(log'[r]) : log'[r][d].op = "read-dispatch" }

\* what is dispatched is what the file holds in the state in which the entry
\* is processed; a file that is not there, or is not JSON, fails the read
readAtItsMoment ==
    \A r \in Requests : \A d \in newReads(r) :
        LET path == log'[r][d].path IN
        IF path \in DOMAIN fs /\ jsonParses(fs[path])
        THEN /\ log'[r][d + 1].op = "receive"
             /\ log'[r][d + 1].body.value = fs[path].value
        ELSE log'[r][d + 1].op = "fail"

\* the steps of the tree of request r that exited with code 0 before entry d
\* and write the file at path
writersBefore(r, path, d) ==
    { x \in entries(r, "exit") :
        /\ x < d
        /\ log[r][x].outcome = [kind |-> "exit", code |-> "0"]
        /\ path \in DOMAIN workflowOf(r, log[r][x].id).steps[log[r][x].idx].writes }

\* a step of another request has written the file at path
writtenElsewhere(r, path) ==
    \E q \in Requests \ {r} : writersBefore(q, path, Len(log[q]) + 1) # {}

\* when the tree of the request wrote the file before the entry is processed
\* (and no other request wrote it), the event dispatched is the one written
\* last, by the workflow's own steps or by a workflow dispatched before
ownWriteDispatched ==
    \A r \in Requests : \A d \in entries(r, "read-dispatch") :
        LET path    == log[r][d].path
            writers == writersBefore(r, path, d)
            last    == CHOOSE x \in writers : \A y \in writers : y <= x
            step    == workflowOf(r, log[r][last].id).steps[log[r][last].idx]
        IN  (writers # {} /\ ~writtenElsewhere(r, path)) =>
                /\ log[r][d + 1].op = "receive"
                /\ log[r][d + 1].body.value = step.writes[path].value

\* C20: a dispatch file is read when its entry is processed: the event
\* dispatched is the content the file has at that moment, after the steps of
\* the workflow and the subtrees of the entries before it, so that a file
\* the workflow's own steps or an earlier dispatched workflow wrote is what
\* is dispatched, even if it did not exist when the event arrived.
C20_ReadWhenProcessed == [][readAtItsMoment]_vars /\ []ownWriteDispatched

\* d.json and e.json did not exist when the daemon started; github/published
\* dispatched the event its first step wrote into d.json, and then, from
\* e.json, the event written by internal/leaf, dispatched two levels down
C20_Witness ==
    /\ \A files \in FileSystems : {p_dispatch, p_extra} \cap DOMAIN files = {}
    /\ \E r \in Requests :
          /\ ~writtenElsewhere(r, p_dispatch)
          /\ ~writtenElsewhere(r, p_extra)
          /\ \E d1, d2 \in entries(r, "read-dispatch") :
                /\ log[r][d1].id = 1 /\ log[r][d1].path = p_dispatch
                /\ log[r][d1 + 1].body.value = Event(s_in, e_fu)
                /\ log[r][d2].id = 1 /\ log[r][d2].path = p_extra
                /\ log[r][d2 + 1].body.value = Event(s_in, e_leaf)
                /\ \E x \in writersBefore(r, p_extra, d2) : log[r][x].id = 3

\* the invocation that called invocation id of request r (0: the HTTP handler)
parentOf(r, id) ==
    LET i == CHOOSE i \in entries(r, "call") : log[r][i].id = id IN log[r][i].parent

\* the keys an invocation of the workflow assigns from its defaults
defaultsAssigned(workflow) ==
    (IF truthy(workflow.defaults.image) THEN {ON_DEFAULT_IMAGE} ELSE {})
    \cup (IF workflow.defaults.volumes.present THEN {ON_DEFAULT_VOLUMES} ELSE {})
    \cup (IF workflow.defaults.args.present THEN {ON_DEFAULT_ARGS} ELSE {})

\* the keys of the env entries of a workflow
entryKeys(workflow) == { workflow.env[k].key : k \in DOMAIN workflow.env }

\* the table of spawn entry i of request r has only what the event's own
\* workflow, payload and secret files and the ambient environment give it
fromItsOwnSources(r, i) ==
    LET e       == log[r][i]
        w       == workflowOf(r, e.id)
        event   == eventOf(r, e.id)
        secrets == loadSecrets(w.secrets, fs, ambient)
        context == contextObject(withMappings(event, w.mappings),
                                 secretsObject(secrets.resolved))
    IN  /\ secrets.ok
        /\ DOMAIN e.env = DOMAIN secrets.resolved \cup entryKeys(w) \cup defaultsAssigned(w)
        /\ \A key \in DOMAIN e.env \ (entryKeys(w) \cup defaultsAssigned(w)) :
              e.env[key] = secrets.resolved[key]
        /\ \A key \in entryKeys(w) \ defaultsAssigned(w) :
              \E k \in DOMAIN w.env :
                  /\ w.env[k].key = key
                  /\ e.env[key] = interpolate(w.env[k].template, context)
        /\ ON_DEFAULT_IMAGE \in defaultsAssigned(w) =>
              e.env[ON_DEFAULT_IMAGE] = w.defaults.image.s

\* the steps of the same event get the same table whoever dispatched the
\* event, and the table a request for this event itself gets
whateverTheParent(r, i) ==
    \A q \in Requests : \A j \in entries(q, "spawn") :
        eventOf(q, log[q][j].id) = eventOf(r, log[r][i].id) =>
            log[q][j].env = log[r][i].env

\* C21: the environment of a dispatched event is built fresh: the table its
\* steps are started with is determined by the ambient environment, the
\* event's own workflow (secret files, env entries, defaults) and its own
\* payload, and holds nothing of the event that dispatched it.
C21_BuiltFreshForDispatched ==
    \A r \in Requests : \A i \in entries(r, "spawn") :
        parentOf(r, log[r][i].id) > 0 =>
            /\ fromItsOwnSources(r, i)
            /\ whateverTheParent(r, i)

\* github/published, whose table has a default image, T from s.json and the
\* mapped input in A_VALUE, dispatched internal/followup: the step of
\* internal/followup has no default image, T from its own .env file and no
\* input of github/published in its env entries; another request for
\* internal/followup itself has started its step too
C21_Witness ==
    \E r, q \in Requests : \E i, j \in entries(r, "spawn") : \E k \in entries(q, "spawn") :
        /\ q # r
        /\ log[r][i].id = 1 /\ log[r][j].id = 2 /\ parentOf(r, 2) = 1
        /\ getProperty(eventOf(r, 1), k_event) = Str(e_pub)
        /\ eventOf(r, 2) = Event(s_in, e_fu)
        /\ eventOf(q, 1) = Event(s_in, e_fu)
        /\ log[r][i].env[ON_DEFAULT_IMAGE] = <<"n", "o", "d", "e">>
        /\ log[r][i].env[k_T] = <<"1">>
        /\ log[r][i].env[k_VALUE] = <<"i", "m", "g">>
        /\ ON_DEFAULT_IMAGE \notin DOMAIN log[r][j].env
        /\ log[r][j].env[k_T] = <<"t", "o", "p">>
        /\ log[r][j].env[k_image] = <<"-", "t", "o", "p">>
        /\ log[r][j].env[k_VALUE] = s_in

\* the operations of the history that belong to one invocation
ownOps == {"call", "lookup", "map", "secrets", "read-secret", "compose",
           "spawn", "exit", "read-dispatch"}

\* the place of an operation in the sequence of operation of the README:
\* parse and validate payload, load secrets, map inputs, populate env (with
\* secrets, then with the env section), run steps, dispatch results
documentedStage(op) ==
    CASE op \in {"call", "lookup"} -> 1
      [] op \in {"secrets", "read-secret"} -> 2
      [] op = "map" -> 3
      [] op = "compose" -> 4
      [] op \in {"spawn", "exit"} -> 5
      [] op = "read-dispatch" -> 6

\* the same, with the inputs mapped before the secrets are loaded
stageInCode(op) ==
    CASE op = "map" -> 2
      [] op \in {"secrets", "read-secret"} -> 3
      [] OTHER -> documentedStage(op)

\* the operations of every invocation occur in the order of their stages
inStageOrder(stage(_)) ==
    \A r \in Requests : \A i, j \in DOMAIN log[r] :
        (/\ i < j
         /\ log[r][i].op \in ownOps /\ log[r][j].op \in ownOps
         /\ log[r][i].id = log[r][j].id)
            => stage(log[r][i].op) <= stage(log[r][j].op)

\* C23: every event goes through the documented sequence of operation in
\* order: validation, loading of secrets, mapping of inputs, population of
\* the environment, steps, dispatch; the secrets are loaded before the
\* inputs are mapped.
C23_DocumentedSequence == inStageOrder(documentedStage)

(***************************************************************************)
(* Helpers checked in isolation.                                           *)
(***************************************************************************)

DaemonIdle ==
    /\ config = <<>>
    /\ ambient = NoProps
    /\ fs = NoProps
    /\ req = <<>>
    /\ log = <<>>
    /\ environments = NoProps

\* --- interpolate -------------------------------------------------------
TemplateFragments ==
    { <<"$">>, <<"{">>, <<"}">>, <<"a">>, <<" ">>, <<"$", "{">>,
      <<"i", "n", "p", "u", "t", "s", ".">> }

Templates ==
    { flatten(parts) :
        parts \in UNION { [1..n -> TemplateFragments] : n \in 0..MaxParts } }

Contexts ==
    { \* nothing resolves
      [inputs |-> EmptyObj, secrets |-> EmptyObj],
      \* inputs.a is a string, whose text itself looks like a reference
      [inputs |-> Obj((<<"a">> :> Str(<<"$", "{", "a", "}">>))), secrets |-> EmptyObj],
      \* inputs.a is null
      [inputs |-> Obj((<<"a">> :> Null)), secrets |-> EmptyObj],
      \* inputs.a was mapped from an unresolved path; a at the root resolves
      [inputs |-> Obj((<<"a">> :> Undefined)), secrets |-> Obj((<<"a">> :> Num(<<"7">>)))] }

InitInterpolate ==
    /\ DaemonIdle
    /\ call \in [fn : {"interpolate"}, template : Templates, context : Contexts]
    /\ result = NoResult

Interpolate ==
    /\ call.fn = "interpolate"
    /\ ~result.done
    /\ result' = Returned(interpolate(call.template,
                            contextObject(call.context.inputs, call.context.secrets)))
    /\ UNCHANGED <<config, ambient, fs, req, log, environments, call>>

SpecInterpolate == InitInterpolate /\ [][Interpolate]_vars

\* the positions at which the left-to-right scan of a template finds a match
RECURSIVE matchStartsFrom(_, _)
matchStartsFrom(template, i) ==
    IF i > Len(template) THEN {}
    ELSE IF matchEnd(template, i) # 0
         THEN {i} \cup matchStartsFrom(template, matchEnd(template, i) + 1)
    ELSE matchStartsFrom(template, i + 1)

f_a == <<"a">>
f_b == <<"b">>
f_c == <<"c">>

MappingFields == {f_a, f_b, f_c}

MappingExprs ==
    { <<"$", "{", "i", "n", "p", "u", "t", "s", ".", "a", "}">>,
      <<"i", "n", "p", "u", "t", "s", ".", "a">>,
      <<"$", "{", "i", "n", "p", "u", "t", "s", ".", "b", "}">>,
      <<"i", "n", "p", "u", "t", "s", ".", "c">>,
      <<"i", "n", "p", "u", "t", "s", ".", "x", ".", "y">> }

\* the entries of a `mappings` object, in property order: at most MaxMappings
\* fields, each field once
MappingLists ==
    UNION { { ms \in [1..n -> [field : MappingFields, expr : MappingExprs]] :
                \A i, j \in 1..n : i # j => ms[i].field # ms[j].field }
            : n \in 0..MaxMappings }

\* events as received: with a field a and a nested value, without a field a,
\* and with fields a and b
MappedEvents ==
    { Obj((f_a :> Str(<<"1">>)) @@ (<<"x">> :> Obj((<<"y">> :> Str(<<"2">>))))
          @@ Event(s_gh, e_pub).o),
      Obj((<<"x">> :> Obj((<<"y">> :> Num(<<"2">>)))) @@ Event(s_gh, e_pub).o),
      Obj((f_a :> Str(<<"1">>)) @@ (f_b :> Str(<<"3">>))
          @@ (<<"x">> :> Obj((<<"y">> :> Str(<<"2">>)))) @@ Event(s_gh, e_pub).o) }

InitMappings ==
    /\ DaemonIdle
    /\ call \in [fn : {"withMappings"}, inputs : MappedEvents, mappings : MappingLists]
    /\ result = NoResult

WithMappings ==
    /\ call.fn = "withMappings"
    /\ ~result.done
    /\ result' = Returned(withMappings(call.inputs, call.mappings))
    /\ UNCHANGED <<config, ambient, fs, req, log, environments, call>>

SpecMappings == InitMappings /\ [][WithMappings]_vars

\* the fields f for which the expression is a reference to inputs.f, written
\* with or without the ${ } around it
referredFields(expr) ==
    { f \in MappingFields :
        normalizeMapping(expr) = <<"$", "{">> \o k_inputs \o <<".">> \o f \o <<"}">> }

\* C7: a mapping whose expression refers to inputs.f yields the value the
\* mapping of f produced when f is declared before it, and the value of f in
\* the event as received (undefined if it has none) when f is declared after
\* it or not at all.
C7_MappingsAccumulate ==
    (call.fn = "withMappings" /\ result.done) =>
        /\ ~result.threw
        /\ \A i \in 1..Len(call.mappings) :
              \A f \in referredFields(call.mappings[i].expr) :
                 getProperty(result.value, call.mappings[i].field) =
                    IF \E j \in 1..(i - 1) : call.mappings[j].field = f
                    THEN getProperty(result.value, f)
                    ELSE getProperty(call.inputs, f)

\* a is mapped from a nested value and b, declared after it, from
\* ${inputs.a}: b has the value a was given, not the a of the event
C7_Witness ==
    /\ call.fn = "withMappings"
    /\ result.done
    /\ call.mappings = <<[field |-> f_a, expr |-> <<"i", "n", "p", "u", "t", "s", ".", "x", ".", "y">>],
                         [field |-> f_b, expr |-> <<"$", "{", "i", "n", "p", "u", "t", "s", ".", "a", "}">>]>>
    /\ getProperty(call.inputs, f_a) = Str(<<"1">>)
    /\ getProperty(result.value, f_a) = Str(<<"2">>)
    /\ getProperty(result.value, f_b) = Str(<<"2">>)

\* --- loadSecrets and the environment composed by processEvent -----------
p_late    == <<"l", ".", "e", "n", "v">>
p_null    == <<"n", ".", "j", "s", "o", "n">>
p_missing == <<"m", ".", "e", "n", "v">>
k_ok      == <<"o", "k">>

\* The secret files on disk: .env sets K twice (the second time with blanks
\* around the name and the value) and T to a value holding "="; l.env sets
\* ON_DEFAULT_IMAGE and K; s.json gives K a number, PATH null and T a
\* boolean; n.json gives K null and `wrong` the array [1, null]; m.env does
\* not exist.
SecretFiles ==
    (p_env :> TextFile(<<"K", "=", "o", "n", "e", "\r", "\n", " ", "K", " ", "=", " ", "t", "w", "o", " ", "\n", "#", " ", "K", "=", "n", "o", "\n", "=", "x", "\n", "T", "=", "t", "=", "1">>))
    @@ (p_late :> TextFile(<<"O", "N", "_", "D", "E", "F", "A", "U", "L", "T", "_", "I", "M", "A", "G", "E", "=", "i", "m", "g", "\n", "K", "=", "l", "a", "t", "e", "\n">>))
    @@ (p_secrets :> JsonFile(Obj((k_K :> Num(<<"1">>)) @@ (k_PATH :> Null)
                                  @@ (k_T :> Bool(TRUE)))))
    @@ (p_null :> JsonFile(Obj((k_K :> Null)
                               @@ (k_wrong :> Arr((<<"0">> :> Num(<<"1">>))
                                                  @@ (<<"1">> :> Null))))))

SecretPaths == {p_env, p_late, p_secrets, p_null, p_missing}

SecretLists == UNION { [1..n -> SecretPaths] : n \in 0..MaxSecretFiles }

EnvAmbients ==
    { NoProps,
      (k_K :> <<"a", "m", "b">>) @@ (k_PATH :> <<"/", "b", "i", "n">>),
      (k_K :> <<"a", "m", "b">>) @@ (ON_DEFAULT_IMAGE :> <<"o", "l", "d">>) }

EnvLists ==
    { <<>>,
      <<[key |-> k_T, template |-> <<"$", "{", "s", "e", "c", "r", "e", "t", "s", ".", "K", "}", "!">>],
        [key |-> k_VALUE, template |-> <<"$", "{", "i", "n", "p", "u", "t", "s", ".", "e", "v", "e", "n", "t", "}">>]>>,
      <<[key |-> k_K, template |-> <<"$", "{", "s", "e", "c", "r", "e", "t", "s", ".", "T", "}", "-", "e">>],
        [key |-> ON_DEFAULT_IMAGE, template |-> <<"e">>]>>,
      \* entries whose templates name the keys of one another
      <<[key |-> k_T, template |-> <<"$", "{", "s", "e", "c", "r", "e", "t", "s", ".", "K", "}", "!">>],
        [key |-> k_K, template |-> <<"$", "{", "s", "e", "c", "r", "e", "t", "s", ".", "T", "}", "-", "e">>],
        [key |-> k_VALUE, template |-> <<"$", "{", "s", "e", "c", "r", "e", "t", "s", ".", "K", "}",
                                         "$", "{", "i", "n", "p", "u", "t", "s", ".", "e", "v", "e", "n", "t", "}">>]>> }

VolumesDeclared ==
    [present |-> TRUE,
     entries |-> <<[key |-> <<".">>, value |-> Str(<<"/", "h", "o", "m", "e">>)]>>]

ArgsDeclared ==
    [present |-> TRUE,
     entries |-> <<[key |-> <<"n", "e", "t">>, value |-> Str(<<"h", "o", "s", "t">>)],
                   [key |-> <<"n">>, value |-> Num(<<"2">>)],
                   [key |-> k_ok, value |-> Bool(TRUE)]>>]

\* defaults with image absent, empty or "node", volumes absent, {} or
\* {".": "/home"}, and args absent or declared
DefaultsChoices ==
    [image   : {Undefined, Str(<<>>), Str(<<"n", "o", "d", "e">>)},
     volumes : {NoDefaults.volumes, [present |-> TRUE, entries |-> <<>>], VolumesDeclared},
     args    : {NoDefaults.args, ArgsDeclared}]

EnvWorkflows ==
    { [EmptyWorkflow EXCEPT !.secrets = secrets, !.env = env, !.defaults = defaults] :
        secrets \in SecretLists, env \in EnvLists, defaults \in DefaultsChoices }

\* processEvent from loadSecrets to the composed environment: the secrets
\* table and the table given to the steps, or the error of loadSecrets
environmentOf(workflow, event, env, files) ==
    LET loaded == loadSecrets(workflow.secrets, files, env) IN
    IF ~loaded.ok THEN Threw(loaded.message)
    ELSE Returned([secrets |-> loaded.resolved,
                   environment |->
                       composeEnvironment(workflow, withMappings(event, workflow.mappings),
                                          loaded.resolved, env)])

InitEnvironment ==
    /\ DaemonIdle
    /\ call \in [fn : {"environment"}, workflow : EnvWorkflows, event : {Event(s_gh, e_pub)},
                 env : EnvAmbients, files : {SecretFiles}]
    /\ result = NoResult

ComposeEnvironment ==
    /\ call.fn = "environment"
    /\ ~result.done
    /\ result' = environmentOf(call.workflow, call.event, call.env, call.files)
    /\ UNCHANGED <<config, ambient, fs, req, log, environments, call>>

SpecEnvironment == InitEnvironment /\ [][ComposeEnvironment]_vars

\* the keys the properties range over: those of the files, of the ambient
\* environment, of the env entries and of the defaults
EnvKeys ==
    { k_K, k_T, k_PATH, k_VALUE, k_wrong,
      ON_DEFAULT_IMAGE, ON_DEFAULT_VOLUMES, ON_DEFAULT_ARGS }

\* the key/value pairs one secret file holds
fileSecrets(path, files) ==
    IF endsWith(path, jsonSuffix) THEN jsonSecrets(files[path].value)
    ELSE parseSecretsFile(files[path].text)

\* the positions, in the declared list, of the files that set key
settersOf(key, paths, files) ==
    { i \in 1..Len(paths) : key \in DOMAIN fileSecrets(paths[i], files) }

\* table has the value for key, or has no entry for key when absent
holds(table, key, present, value) ==
    IF present THEN key \in DOMAIN table /\ table[key] = value
    ELSE key \notin DOMAIN table

\* the keys that have an entry in workflow.env
envKeys(workflow) == { workflow.env[i].key : i \in 1..Len(workflow.env) }

\* the keys processEvent sets from workflow.defaults
defaultKeys(workflow) ==
    (IF imageSet(workflow.defaults) THEN {ON_DEFAULT_IMAGE} ELSE {})
    \cup (IF volumesSet(workflow.defaults) THEN {ON_DEFAULT_VOLUMES} ELSE {})
    \cup (IF argsSet(workflow.defaults) THEN {ON_DEFAULT_ARGS} ELSE {})

\* For every key: the secrets table has the value of the last declared file
\* that sets the key, or else the ambient value, and so has the composed
\* environment for every key outside `exempt`.
secretPrecedence(exempt) ==
    (call.fn = "environment" /\ result.done /\ ~result.threw) =>
        \A key \in EnvKeys :
            LET paths   == call.workflow.secrets
                setters == settersOf(key, paths, call.files)
                last    == CHOOSE i \in setters : \A j \in setters : j <= i
                present == setters # {} \/ key \in DOMAIN call.env
                value   == IF setters # {} THEN fileSecrets(paths[last], call.files)[key]
                           ELSE call.env[key]
            IN  /\ holds(result.value.secrets, key, present, value)
                /\ key \notin exempt => holds(result.value.environment, key, present, value)

\* C6 as stated: only an env entry for K exempts the composed environment
C6_LastFileWinsUnlessEnvEntry == secretPrecedence(envKeys(call.workflow))

\* C6: for every key K the secrets table holds the value of the last declared
\* file that sets K, whatever the ambient value, and the ambient value when
\* no file sets K; so does the composed environment when the workflow has
\* neither an env entry for K nor a default that sets K.
C6_LastFileWins ==
    secretPrecedence(envKeys(call.workflow) \cup defaultKeys(call.workflow))

\* .env, s.json and l.env all set K over an ambient K: the table and the
\* environment have the value of l.env, the last one declared
C6_Witness ==
    /\ call.fn = "environment"
    /\ result.done
    /\ ~result.threw
    /\ call.workflow.secrets = <<p_env, p_secrets, p_late>>
    /\ call.workflow.env = <<>>
    /\ k_K \in DOMAIN call.env
    /\ fileSecrets(p_env, call.files)[k_K] = <<"t", "w", "o">>
    /\ result.value.secrets[k_K] = <<"l", "a", "t", "e">>
    /\ result.value.environment[k_K] = <<"l", "a", "t", "e">>

\* the JSON text of each declared defaults object
JsonTexts ==
    (<<>> :> <<"{", "}">>)
    @@ (VolumesDeclared.entries :> <<"{", "\"", ".", "\"", ":", "\"", "/", "h", "o", "m", "e", "\"", "}">>)
    @@ (ArgsDeclared.entries :> <<"{", "\"", "n", "e", "t", "\"", ":", "\"", "h", "o", "s", "t", "\"", ",", "\"", "n", "\"", ":", "2", ",", "\"", "o", "k", "\"", ":", "t", "r", "u", "e", "}">>)

\* the table before the defaults are applied: ambient, secrets, env entries
belowDefaults ==
    applyEnv(baseEnvironment(call.env, result.value.secrets), call.workflow.env,
             contextObject(withMappings(call.event, call.workflow.mappings),
                           secretsObject(result.value.secrets)))

\* key is in the composed environment exactly as the lower layers left it
leftAlone(key) ==
    holds(result.value.environment, key, key \in DOMAIN belowDefaults,
          IF key \in DOMAIN belowDefaults THEN belowDefaults[key] ELSE <<>>)

\* The composed environment has ON_DEFAULT_IMAGE equal to the image when
\* `imageApplies`, ON_DEFAULT_VOLUMES and ON_DEFAULT_ARGS equal to the JSON
\* text of volumes and args when they are present, and each key as the lower
\* layers left it otherwise.
defaultsApplied(imageApplies) ==
    LET defaults == call.workflow.defaults
        table    == result.value.environment
    IN  /\ IF imageApplies THEN holds(table, ON_DEFAULT_IMAGE, TRUE, defaults.image.s)
           ELSE leftAlone(ON_DEFAULT_IMAGE)
        /\ IF defaults.volumes.present
           THEN holds(table, ON_DEFAULT_VOLUMES, TRUE, JsonTexts[defaults.volumes.entries])
           ELSE leftAlone(ON_DEFAULT_VOLUMES)
        /\ IF defaults.args.present
           THEN holds(table, ON_DEFAULT_ARGS, TRUE, JsonTexts[defaults.args.entries])
           ELSE leftAlone(ON_DEFAULT_ARGS)

\* C9 as stated: a present defaults.image, whatever the string, is set
C9_PresentDefaultsSet ==
    (call.fn = "environment" /\ result.done /\ ~result.threw) =>
        defaultsApplied(call.workflow.defaults.image.t # "undefined")

\* C9: the composed environment has ON_DEFAULT_IMAGE equal to defaults.image
\* when it is a non-empty string, and ON_DEFAULT_VOLUMES / ON_DEFAULT_ARGS
\* equal to the JSON text of defaults.volumes / defaults.args when present;
\* for an absent field, and for an empty image, the key is not set: it is as
\* the ambient environment, the secrets and the env entries left it.
C9_DefaultsSerialized ==
    (call.fn = "environment" /\ result.done /\ ~result.threw) =>
        defaultsApplied(call.workflow.defaults.image.t = "string"
                        /\ call.workflow.defaults.image.s # <<>>)

\* image "node", volumes {".": "/home"} and no args over an ambient
\* ON_DEFAULT_IMAGE: the image replaces it, the volumes are serialized and
\* ON_DEFAULT_ARGS is not set
C9_Witness ==
    /\ call.fn = "environment"
    /\ result.done
    /\ ~result.threw
    /\ call.workflow.defaults.image = Str(<<"n", "o", "d", "e">>)
    /\ call.workflow.defaults.volumes = VolumesDeclared
    /\ ~call.workflow.defaults.args.present
    /\ ON_DEFAULT_IMAGE \in DOMAIN call.env
    /\ result.value.environment[ON_DEFAULT_IMAGE] = <<"n", "o", "d", "e">>
    /\ result.value.environment[ON_DEFAULT_VOLUMES] = <<"{", "\"", ".", "\"", ":", "\"", "/", "h", "o", "m", "e", "\"", "}">>
    /\ ON_DEFAULT_ARGS \notin DOMAIN result.value.environment

\* the value the env entry for key gives it
envEntryValue(key) ==
    LET i == CHOOSE i \in 1..Len(call.workflow.env) : call.workflow.env[i].key = key IN
    interpolate(call.workflow.env[i].template,
                contextObject(withMappings(call.event, call.workflow.mappings),
                              secretsObject(result.value.secrets)))

\* The composed environment has, for every key, the value of the highest
\* layer that sets it: the defaults (the image when `imageApplies`), then the
\* env entries, then the secrets table, then the ambient environment; a key
\* no layer sets is absent.
layered(imageApplies) ==
    LET defaults == call.workflow.defaults
        table    == result.value.environment
    IN  \A key \in EnvKeys :
            IF key = ON_DEFAULT_IMAGE /\ imageApplies
            THEN holds(table, key, TRUE, defaults.image.s)
            ELSE IF key = ON_DEFAULT_VOLUMES /\ defaults.volumes.present
            THEN holds(table, key, TRUE, JsonTexts[defaults.volumes.entries])
            ELSE IF key = ON_DEFAULT_ARGS /\ defaults.args.present
            THEN holds(table, key, TRUE, JsonTexts[defaults.args.entries])
            ELSE IF key \in envKeys(call.workflow)
            THEN holds(table, key, TRUE, envEntryValue(key))
            ELSE IF key \in DOMAIN result.value.secrets
            THEN holds(table, key, TRUE, result.value.secrets[key])
            ELSE IF key \in DOMAIN call.env
            THEN holds(table, key, TRUE, call.env[key])
            ELSE holds(table, key, FALSE, <<>>)

\* C15 as stated: a present defaults.image, whatever the string, is the
\* highest layer for ON_DEFAULT_IMAGE
C15_LayeredPresentImage ==
    (call.fn = "environment" /\ result.done /\ ~result.threw) =>
        layered(call.workflow.defaults.image.t # "undefined")

\* C15: the composed environment is layered, lowest to highest: ambient
\* environment, secrets table, interpolated env entries, then ON_DEFAULT_IMAGE
\* from a non-empty defaults.image and ON_DEFAULT_VOLUMES / ON_DEFAULT_ARGS
\* from a present defaults.volumes / defaults.args; every key has the value
\* of the highest layer that sets it.
C15_Layered ==
    (call.fn = "environment" /\ result.done /\ ~result.threw) =>
        layered(call.workflow.defaults.image.t = "string"
                /\ call.workflow.defaults.image.s # <<>>)

\* K is set by the ambient environment, by a secret file and by an env entry,
\* ON_DEFAULT_IMAGE by the ambient environment, a secret file, an env entry
\* and defaults.image: the env entry and the image are what the steps see
C15_Witness ==
    /\ call.fn = "environment"
    /\ result.done
    /\ ~result.threw
    /\ call.workflow.secrets = <<p_late>>
    /\ {k_K, ON_DEFAULT_IMAGE} \subseteq DOMAIN call.env
    /\ {k_K, ON_DEFAULT_IMAGE} \subseteq envKeys(call.workflow)
    /\ call.workflow.defaults.image = Str(<<"n", "o", "d", "e">>)
    /\ result.value.secrets[k_K] = <<"l", "a", "t", "e">>
    /\ result.value.environment[k_K] = <<"-", "e">>
    /\ result.value.environment[ON_DEFAULT_IMAGE] = <<"n", "o", "d", "e">>

\* key occurs in the file at path: as a key of the JSON object, or as the
\* name of a line of the dotenv file
mentions(path, files, key) ==
    IF endsWith(path, jsonSuffix) THEN key \in DOMAIN files[path].value.o
    ELSE key \in DOMAIN parseSecretsFile(files[path].text)

\* For the last declared file that mentions a key, when it is a .json file:
\* the table has the string of the key's value when `assigned(value)`, and
\* otherwise what the files declared before it and the ambient environment
\* gave the key.
jsonValuesLoaded(assigned(_)) ==
    (call.fn = "environment" /\ result.done /\ ~result.threw) =>
        LET paths == call.workflow.secrets IN
        \A i \in 1..Len(paths) : \A key \in EnvKeys :
            (/\ endsWith(paths[i], jsonSuffix)
             /\ mentions(paths[i], call.files, key)
             /\ \A j \in (i + 1)..Len(paths) : ~mentions(paths[j], call.files, key)) =>
                LET value  == call.files[paths[i]].value.o[key]
                    before == loadSecrets(SubSeq(paths, 1, i - 1), call.files, call.env).resolved
                IN  IF assigned(value)
                    THEN holds(result.value.secrets, key, TRUE, String(value))
                    ELSE holds(result.value.secrets, key, key \in DOMAIN before,
                               IF key \in DOMAIN before THEN before[key] ELSE <<>>)

everyValue(value) == TRUE

notNull(value) == value.t \notin {"undefined", "null"}

\* C16 as stated: every key of the object is in the table with the string of
\* its value, null included
C16_EveryJsonValueLoaded == jsonValuesLoaded(everyValue)

\* C16: every key of the object of a .json secret file whose value is not
\* null is in the table with the string of its value, over any earlier value
\* of the key; a key whose value is null is not assigned: it keeps the
\* earlier value, or stays absent.
C16_JsonValuesLoaded == jsonValuesLoaded(notNull)

\* s.json after .env, over an ambient PATH: K is "1" and T "true" over the
\* values of .env, and PATH, null in s.json, is still the ambient one
C16_Witness ==
    /\ call.fn = "environment"
    /\ result.done
    /\ ~result.threw
    /\ call.workflow.secrets = <<p_env, p_secrets>>
    /\ call.files[p_secrets].value.o[k_PATH] = Null
    /\ k_PATH \in DOMAIN call.env
    /\ result.value.secrets[k_PATH] = call.env[k_PATH]
    /\ result.value.secrets[k_K] = <<"1">>
    /\ result.value.secrets[k_T] = <<"t", "r", "u", "e">>

\* --- resolvePath ------------------------------------------------------
\* the roots a path is resolved against: values of every type, objects with
\* nested objects, with a null member and with a member a mapping left
\* undefined, and an array
ResolveTargets ==
    { Undefined, Null, Str(<<"a">>), Num(<<"7">>), EmptyObj,
      Obj((<<"a">> :> Obj((<<"b">> :> Num(<<"1">>))))),
      Obj((<<"a">> :> Null)),
      Obj((<<"a">> :> Undefined)),
      Obj((<<"a">> :> Str(<<"b">>)) @@ (<<"b">> :> Bool(FALSE))),
      Arr((<<"0">> :> Obj((<<"b">> :> Str(<<"a">>))))) }

\* the segments a path is made of
ResolveKeys == { <<"a">>, <<"b">>, <<"0">>, k_length, k_constructor }

MaxSegments == 2

ResolvePaths == UNION { [1..n -> ResolveKeys] : n \in 0..MaxSegments }

\* what may precede the first segment in the expression as written
ResolvePaddings == { <<>>, <<" ">> }

\* the expression as written: the segments joined by dots
expressionOf(c) == c.padding \o join(c.parts, <<".">>)

InitResolve ==
    /\ DaemonIdle
    /\ call \in [fn : {"resolvePath"}, target : ResolveTargets,
                 parts : ResolvePaths, padding : ResolvePaddings]
    /\ result = NoResult

\* resolvePath(target, expression), and the call withMappings makes for the
\* same expression, with the wrapper it puts around it
Resolve ==
    /\ call.fn = "resolvePath"
    /\ ~result.done
    /\ result' = Returned(
          [bare    |-> resolvePath(call.target, expressionOf(call)),
           wrapped |-> resolvePath(call.target, normalizeMapping(expressionOf(call)))])
    /\ UNCHANGED <<config, ambient, fs, req, log, environments, call>>

SpecResolve == InitResolve /\ [][Resolve]_vars

\* the keys a value contains
keysOf(v) ==
    CASE v.t = "object" -> DOMAIN v.o
      [] v.t = "array" -> DOMAIN v.o \cup {k_length}
      [] OTHER -> {}

\* consecutive key lookups along the segments: the value reached, unless a
\* value on the way does not contain the next segment as a key
RECURSIVE lookups(_, _)
lookups(v, parts) ==
    IF parts = <<>> THEN [reached |-> TRUE, value |-> v]
    ELSE IF Head(parts) \notin keysOf(v) THEN [reached |-> FALSE, value |-> Undefined]
    ELSE lookups(IF Head(parts) \in DOMAIN v.o THEN v.o[Head(parts)] ELSE arrayLength(v),
                 Tail(parts))

\* C22: resolvePath never throws; with and without the ${...} wrapper the
\* result is the same; the result is the value reached by consecutive key
\* lookups along the segments, and it is the unresolved result exactly when
\* a value on the way does not contain the next segment as a key.
C22_ResolvePathTotal ==
    result.done =>
        LET walk == lookups(call.target, call.parts) IN
        /\ ~result.threw
        /\ result.value.wrapped = result.value.bare
        /\ walk.reached => result.value.bare = walk.value
        /\ result.value.bare = Undefined <=> ~walk.reached

\* the env entries of a workflow declared in another order
reordered(workflow, p) ==
    [workflow EXCEPT !.env = [i \in 1..Len(workflow.env) |-> workflow.env[p[i]]]]

\* C24: the value of an env entry is its own template interpolated in the
\* context {inputs, secrets}, where secrets is the table loadSecrets
\* returned: no template reads what another env entry assigned, and the
\* entries (their keys are distinct) declared in any other order compose the
\* same environment.
C24_EnvEntriesIndependent ==
    (call.fn = "environment" /\ result.done /\ ~result.threw) =>
        LET w       == call.workflow
            inputs  == withMappings(call.event, w.mappings)
            context == contextObject(inputs, secretsObject(result.value.secrets))
        IN  /\ \A i \in 1..Len(w.env) :
                  w.env[i].key \notin defaultKeys(w) =>
                      result.value.environment[w.env[i].key]
                          = interpolate(w.env[i].template, context)
            /\ \A p \in Permutations(1..Len(w.env)) :
                  composeEnvironment(reordered(w, p), inputs, result.value.secrets, call.env)
                      = result.value.environment

\* T, K and A_VALUE are env entries declared in this order, K and T are
\* secrets too: K is made from the secret T, not from the entry T declared
\* before it, and A_VALUE from the secret K, not from the entry K
C24_Witness ==
    /\ call.fn = "environment" /\ result.done /\ ~result.threw
    /\ Len(call.workflow.env) = 3
    /\ call.workflow.env[1].key = k_T
    /\ call.workflow.env[2].key = k_K
    /\ call.workflow.env[2].template
          = <<"$", "{", "s", "e", "c", "r", "e", "t", "s", ".", "T", "}", "-", "e">>
    /\ {k_K, k_T} \subseteq DOMAIN result.value.secrets
    /\ result.value.secrets[k_K] = <<"t", "w", "o">>
    /\ result.value.secrets[k_T] = <<"t", "=", "1">>
    /\ result.value.environment[k_T] = <<"t", "w", "o", "!">>
    /\ result.value.environment[k_K] = <<"t", "=", "1", "-", "e">>
    /\ result.value.environment[k_VALUE] = <<"t", "w", "o">> \o e_pub
=============================================================================
